---------------------------- MODULE Spec2Model ----------------------------
(***************************************************************************)
(* A model of the Dreamer / SAC-pixel core of sheeprl:                     *)
(*   - compute_lambda_values        (algos/dreamer_v2/utils.py)            *)
(*   - TwoHotEncodingDistribution   (utils/distribution.py)                *)
(*   - SACPixelAgent target EMA     (algos/sac_pixel/agent.py)             *)
(*   - RSSM, PlayerDV3, Actor, MinedojoActor and build_models             *)
(*                                  (algos/dreamer_v3/agent.py)            *)
(*   - SymlogDistribution, MSEDistribution (utils/distribution.py)         *)
(*   - CustomObtain                 (envs/minerl_envs/obtain.py)           *)
(*   - test() and the checkpoint of a training run                         *)
(* Real numbers are exact rationals <<n, d>> in lowest terms with d > 0.   *)
(* Tensors are sequences; indices are 1-based where the code is 0-based.   *)
(***************************************************************************)
EXTENDS Integers, Sequences, FiniteSets, TLC

VARIABLES
    lv,      \* the running call of compute_lambda_values
    th,      \* the running call of TwoHotEncodingDistribution.log_prob
    sac,     \* the SACPixelAgent: online and target critic parameters
    rssm,    \* the RSSM and the latent state its caller carries
    player,  \* the PlayerDV3 and its stored per-environment state
    actor,   \* an Actor / MinedojoActor: its construction and its forward pass
    bm,      \* the running call of build_models
    shp,     \* the shapes of the tensors an RSSM rollout passes along
    dst,     \* a SymlogDistribution / MSEDistribution and its log_prob call
    ckpt,    \* a DreamerV3 training run and the checkpoint it writes
    obt,     \* a CustomObtain task and the episode it judges
    tst      \* the running call of the evaluation routine test()

vars == <<lv, th, sac, rssm, player, actor, bm, shp, dst, ckpt, obt, tst>>

(***************************************************************************)
(* Exact rational arithmetic.                                              *)
(***************************************************************************)
Abs(n) == IF n < 0 THEN -n ELSE n

RECURSIVE Gcd(_, _)
Gcd(a, b) == IF b = 0 THEN a ELSE Gcd(b, a % b)

Q(n, d) ==
    LET g == Gcd(Abs(n), Abs(d))
        s == IF d < 0 THEN -1 ELSE 1
    IN  <<(s * n) \div g, (s * d) \div g>>

Zero == <<0, 1>>
One == <<1, 1>>
QInt(n) == <<n, 1>>
QAdd(a, b) == Q(a[1] * b[2] + b[1] * a[2], a[2] * b[2])
QSub(a, b) == Q(a[1] * b[2] - b[1] * a[2], a[2] * b[2])
QMul(a, b) == Q(a[1] * b[1], a[2] * b[2])
QDiv(a, b) == Q(a[1] * b[2], a[2] * b[1])
QLe(a, b) == a[1] * b[2] <= b[1] * a[2]
QLt(a, b) == a[1] * b[2] < b[1] * a[2]
QAbs(a) == <<Abs(a[1]), a[2]>>

RECURSIVE QSum(_)
QSum(s) == IF s = <<>> THEN Zero ELSE QAdd(s[1], QSum(Tail(s)))

RECURSIVE Sum(_)
Sum(s) == IF s = <<>> THEN 0 ELSE s[1] + Sum(Tail(s))

\* list(reversed(s))
ReverseKept(s) == s
Reverse(s) == [i \in 1..Len(s) |-> s[Len(s) + 1 - i]]

\* Values a subsystem holds while a specification does not exercise it.
Idle == [pc |-> "idle"]

(***************************************************************************)
(* compute_lambda_values(rewards, values, continues, bootstrap, horizon,   *)
(* lmbda).  One batch element: every operation of the function is          *)
(* elementwise over the batch dimension.                                   *)
(***************************************************************************)
MaxT == 2

LvReals == {QInt(0), QInt(1)}
LvValues == {QInt(0), QInt(2)}
LvContinues == {QInt(0), QInt(1), Q(1, 2)}
\* bootstrap: Optional[Tensor]; None is the empty tuple
None == <<>>
LvBootstraps == {None, QInt(0), QInt(3)}
LvLmbdas == {QInt(0), Q(1, 2), QInt(1)}

\* bootstrap = torch.zeros_like(values[-1:]) when bootstrap is None
LvBootstrap(b) == IF b = None THEN Zero ELSE b

\* next_val = torch.cat((values[1:], bootstrap), dim=0)
LvNextValUnshifted(values, bootstrap) == values
LvNextVal(values, bootstrap) == Tail(values) \o <<bootstrap>>

\* inputs = rewards + continues * next_val * (1 - lmbda)
LvInputs(rewards, continues, next_val, lmbda) ==
    [t \in 1..Len(rewards) |->
        QAdd(rewards[t], QMul(QMul(continues[t], next_val[t]), QSub(One, lmbda)))]

\* agg = inputs[i] + continues[i] * lmbda * agg
LvAggNoLmbda(inputs, continues, lmbda, agg, i) ==
    QAdd(inputs[i + 1], QMul(continues[i + 1], agg))
LvAgg(inputs, continues, lmbda, agg, i) ==
    QAdd(inputs[i + 1], QMul(QMul(continues[i + 1], lmbda), agg))

LvInit ==
    \E T \in 1..MaxT :
    \E rewards \in [1..T -> LvReals], values \in [1..T -> LvValues],
       continues \in [1..T -> LvContinues] :
    \E bootstrap \in LvBootstraps, lmbda \in LvLmbdas, horizon \in 0..(T + 1) :
        lv = [pc |-> "call", rewards |-> rewards, values |-> values,
              continues |-> continues, bootstrap |-> bootstrap,
              horizon |-> horizon, lmbda |-> lmbda,
              inputs |-> <<>>, agg |-> Zero, i |-> 0, lv |-> <<>>, result |-> <<>>]

\* lines 70-75: the statements before the loop
LvEnter ==
    /\ lv.pc = "call"
    /\ LET bootstrap == LvBootstrap(lv.bootstrap)
           next_val == LvNextVal(lv.values, bootstrap)
       IN  lv' = [lv EXCEPT !.pc = "loop",
                            !.agg = bootstrap,
                            !.inputs = LvInputs(lv.rewards, lv.continues, next_val, lv.lmbda),
                            !.i = lv.horizon - 1,
                            !.lv = <<>>]
    /\ UNCHANGED <<th, sac, rssm, player, actor, bm, shp, dst, ckpt, obt, tst>>

\* lines 76-78: one iteration of `for i in reversed(range(horizon))`
LvIterate ==
    /\ lv.pc = "loop"
    /\ lv.i >= 0
    /\ lv.i < Len(lv.inputs)
    /\ LET agg == LvAgg(lv.inputs, lv.continues, lv.lmbda, lv.agg, lv.i)
       IN  lv' = [lv EXCEPT !.agg = agg, !.lv = Append(lv.lv, agg), !.i = lv.i - 1]
    /\ UNCHANGED <<th, sac, rssm, player, actor, bm, shp, dst, ckpt, obt, tst>>

\* inputs[i] with i past the last timestep raises IndexError
LvIndexError ==
    /\ lv.pc = "loop"
    /\ lv.i >= Len(lv.inputs)
    /\ lv' = [lv EXCEPT !.pc = "raised"]
    /\ UNCHANGED <<th, sac, rssm, player, actor, bm, shp, dst, ckpt, obt, tst>>

\* line 79: torch.cat(list(reversed(lv)), dim=0); torch.cat of no tensor raises
LvReturn ==
    /\ lv.pc = "loop"
    /\ lv.i < 0
    /\ lv' = IF lv.lv = <<>>
             THEN [lv EXCEPT !.pc = "raised"]
             ELSE [lv EXCEPT !.pc = "returned", !.result = Reverse(lv.lv)]
    /\ UNCHANGED <<th, sac, rssm, player, actor, bm, shp, dst, ckpt, obt, tst>>

LvNext == LvEnter \/ LvIterate \/ LvIndexError \/ LvReturn

InitLambda == LvInit /\ th = Idle /\ sac = Idle /\ rssm = Idle /\ player = Idle
    /\ actor = Idle /\ bm = Idle /\ shp = Idle
    /\ dst = Idle /\ ckpt = Idle /\ obt = Idle /\ tst = Idle

SpecLambda == InitLambda /\ [][LvNext]_vars

(***************************************************************************)
(* TwoHotEncodingDistribution.log_prob(x), up to the two-hot target.  th.x *)
(* is the target after line 250, x = self.transfwd(x): transfwd is an      *)
(* argument of the constructor and any real can come out of it.  The bins  *)
(* are torch.linspace(low, high, logits.shape[-1]).                        *)
(***************************************************************************)
MaxBins == 3
SubDiv == 3

ThLows == {-2, -1, 0}
ThHighs == {1, 3}

Clip(v, lo, hi) == IF v < lo THEN lo ELSE IF v > hi THEN hi ELSE v

\* self.bins = torch.linspace(low, high, logits.shape[-1])
Bins(low, high, n) ==
    [i \in 1..n |->
        IF n = 1 THEN QInt(low)
        ELSE QAdd(QInt(low), Q((i - 1) * (high - low), n - 1))]

\* below = (self.bins <= x).type(torch.int32).sum(dim=-1, keepdim=True) - 1
ThBelowStrict(bins, x) == Cardinality({i \in 1..Len(bins) : QLt(bins[i], x)}) - 1
ThBelow(bins, x) == Cardinality({i \in 1..Len(bins) : QLe(bins[i], x)}) - 1

\* above = len(self.bins) - (self.bins > x).type(torch.int32).sum(dim=-1, keepdim=True)
ThAbove(bins, x) == Len(bins) - Cardinality({i \in 1..Len(bins) : QLt(x, bins[i])})

\* dist_to_below = torch.where(equal, 1, torch.abs(self.bins[below] - x))
ThDist(equal, bins, idx, x) == IF equal THEN One ELSE QAbs(QSub(bins[idx + 1], x))

\* weight_below = dist_to_above / total;  weight_above = dist_to_below / total
ThWeightsSwapped(dist_to_below, dist_to_above) ==
    LET total == QAdd(dist_to_below, dist_to_above)
    IN  [below |-> QDiv(dist_to_below, total), above |-> QDiv(dist_to_above, total)]
ThWeights(dist_to_below, dist_to_above) ==
    LET total == QAdd(dist_to_below, dist_to_above)
    IN  [below |-> QDiv(dist_to_above, total), above |-> QDiv(dist_to_below, total)]

\* F.one_hot(index, len(self.bins))
OneHot(idx, n) == [i \in 1..n |-> IF i = idx + 1 THEN One ELSE Zero]

\* target = one_hot(below) * weight_below + one_hot(above) * weight_above
ThTarget(below, above, w, n) ==
    [i \in 1..n |->
        QAdd(QMul(OneHot(below, n)[i], w.below), QMul(OneHot(above, n)[i], w.above))]

\* the targets tried: the bin values, SubDiv-ths of a bin width between them,
\* and up to one bin width outside [low, high]
ThTargets(low, high, n) ==
    {QAdd(QInt(low), Q(j * (high - low), (n - 1) * SubDiv)) :
        j \in (0 - SubDiv)..(n * SubDiv)}

ThInit ==
    \E low \in ThLows, high \in ThHighs, n \in 2..MaxBins :
    \E x \in ThTargets(low, high, n) :
        th = [pc |-> "call", low |-> low, high |-> high, bins |-> Bins(low, high, n),
              x |-> x, below |-> 0, above |-> 0, weights |-> [below |-> Zero, above |-> Zero],
              target |-> <<>>]

\* lines 251-264
ThLogProb ==
    /\ th.pc = "call"
    /\ LET n == Len(th.bins)
           below == Clip(ThBelow(th.bins, th.x), 0, n - 1)
           above == Clip(ThAbove(th.bins, th.x), 0, n - 1)
           equal == below = above
           dist_to_below == ThDist(equal, th.bins, below, th.x)
           dist_to_above == ThDist(equal, th.bins, above, th.x)
           w == ThWeights(dist_to_below, dist_to_above)
       IN  th' = [th EXCEPT !.pc = "returned", !.below = below, !.above = above,
                            !.weights = w, !.target = ThTarget(below, above, w, n)]
    /\ UNCHANGED <<lv, sac, rssm, player, actor, bm, shp, dst, ckpt, obt, tst>>

\* the caller draws the next target
ThNextCall ==
    /\ th.pc = "returned"
    /\ \E x \in ThTargets(th.low, th.high, Len(th.bins)) :
          th' = [th EXCEPT !.pc = "call", !.x = x]
    /\ UNCHANGED <<lv, sac, rssm, player, actor, bm, shp, dst, ckpt, obt, tst>>

ThNext == ThLogProb \/ ThNextCall

InitTwoHot == ThInit /\ lv = Idle /\ sac = Idle /\ rssm = Idle /\ player = Idle
    /\ actor = Idle /\ bm = Idle /\ shp = Idle
    /\ dst = Idle /\ ckpt = Idle /\ obt = Idle /\ tst = Idle

SpecTwoHot == InitTwoHot /\ [][ThNext]_vars

(***************************************************************************)
(* SACPixelAgent: the online critics (qfs_unwrapped), their target copy    *)
(* (qfs_target), qfs_target_ema and get_target_q_values.  Each critic      *)
(* holds one parameter; parameters() lists them critic after critic.       *)
(* One thread of control runs the agent: sac.pc is where it is, and a      *)
(* method is entered only from "idle" (a call returns before the next      *)
(* statement of the training loop runs).  sac.ver counts, per target       *)
(* parameter, the EMA writes it has received (a history variable).         *)
(***************************************************************************)
NumCritics == 2
MaxEma == 2

SacParamVals == {QInt(0), QInt(1)}
SacTaus == {QInt(0), Q(1, 2), QInt(1)}

\* self._tau * param.data + (1 - self._tau) * target_param.data
EmaValueSwapped(tau, param, target_param) ==
    QAdd(QMul(QSub(One, tau), param), QMul(tau, target_param))
EmaValue(tau, param, target_param) ==
    QAdd(QMul(tau, param), QMul(QSub(One, tau), target_param))

\* zip(self.qfs_unwrapped.parameters(), self.qfs_target.parameters()): the
\* number of pairs the loop visits
EmaPairsFirstCriticOnly(qfs, target) == 1
EmaPairs(qfs, target) == IF Len(qfs) < Len(target) THEN Len(qfs) ELSE Len(target)

\* __init__, lines 186-196: the target is a deep copy of the online critics
SacInit ==
    \E qfs \in [1..NumCritics -> SacParamVals], tau \in SacTaus :
        sac = [pc |-> "idle", qfs |-> qfs, target |-> qfs, tau |-> tau,
               k |-> 0, prev |-> qfs, ver |-> [i \in 1..NumCritics |-> 0],
               seen |-> <<>>, last |-> "init", emas |-> 0]

\* the optimizer step of the training loop: the online parameters move
SacOptimizerStep ==
    /\ sac.pc = "idle"
    /\ \E qfs \in [1..NumCritics -> SacParamVals] :
          /\ qfs # sac.qfs
          /\ sac' = [sac EXCEPT !.qfs = qfs, !.last = "opt"]
    /\ UNCHANGED <<lv, th, rssm, player, actor, bm, shp, dst, ckpt, obt, tst>>

\* qfs_target_ema is entered
EmaEnter ==
    /\ sac.pc = "idle"
    /\ sac.emas < MaxEma
    /\ sac' = [sac EXCEPT !.pc = "ema", !.k = 1, !.prev = sac.target,
                          !.emas = sac.emas + 1]
    /\ UNCHANGED <<lv, th, rssm, player, actor, bm, shp, dst, ckpt, obt, tst>>

\* line 255, one iteration: target_param.data.copy_(...); after the last pair
\* the method returns
EmaIterate ==
    /\ sac.pc = "ema"
    /\ LET k == sac.k
           done == k >= EmaPairs(sac.qfs, sac.target)
       IN  sac' = [sac EXCEPT
                      !.target[k] = EmaValue(sac.tau, sac.qfs[k], sac.target[k]),
                      !.ver[k] = sac.ver[k] + 1,
                      !.k = IF done THEN 0 ELSE k + 1,
                      !.pc = IF done THEN "idle" ELSE "ema",
                      !.last = IF done THEN "ema" ELSE sac.last]
    /\ UNCHANGED <<lv, th, rssm, player, actor, bm, shp, dst, ckpt, obt, tst>>

\* get_target_q_values is entered
ReadEnter ==
    /\ sac.pc = "idle"
    /\ sac' = [sac EXCEPT !.pc = "read", !.k = 1, !.seen = <<>>]
    /\ UNCHANGED <<lv, th, rssm, player, actor, bm, shp, dst, ckpt, obt, tst>>

\* line 241, one element of the comprehension: self.qfs_target[i](obs, action)
\* reads the parameters of target critic i
ReadIterate ==
    /\ sac.pc = "read"
    /\ sac.k <= NumCritics
    /\ sac' = [sac EXCEPT
                  !.seen = Append(sac.seen, [val |-> sac.target[sac.k], ver |-> sac.ver[sac.k]]),
                  !.k = sac.k + 1]
    /\ UNCHANGED <<lv, th, rssm, player, actor, bm, shp, dst, ckpt, obt, tst>>

\* line 241: torch.cat(...) is returned
ReadReturn ==
    /\ sac.pc = "read"
    /\ sac.k > NumCritics
    /\ sac' = [sac EXCEPT !.pc = "idle", !.k = 0, !.seen = <<>>]
    /\ UNCHANGED <<lv, th, rssm, player, actor, bm, shp, dst, ckpt, obt, tst>>

SacNext ==
    \/ SacOptimizerStep
    \/ EmaEnter
    \/ EmaIterate
    \/ ReadEnter
    \/ ReadIterate
    \/ ReadReturn

InitSac == SacInit /\ lv = Idle /\ th = Idle /\ rssm = Idle /\ player = Idle
    /\ actor = Idle /\ bm = Idle /\ shp = Idle
    /\ dst = Idle /\ ckpt = Idle /\ obt = Idle /\ tst = Idle

SpecSac == InitSac /\ [][SacNext]_vars

(***************************************************************************)
(* SACPixelAgent.__init__ from its critics argument.  A critic is either a *)
(* SACPixelCritic or a Fabric wrapper around one (wrapped), which has the  *)
(* attribute `module`.                                                     *)
(***************************************************************************)
SacCritics == [1..NumCritics -> [wrapped : BOOLEAN, param : SacParamVals]]

\* getattr(critic, "module"), line 181: without a default, an object that
\* has no such attribute raises AttributeError
GetAttrModuleRaises(critic) == ~critic.wrapped

\* lines 179-186: the unwrapped critics
QfsUnwrapped(critics) == [i \in 1..Len(critics) |-> critics[i].param]

SacNew ==
    \E critics \in SacCritics, tau \in SacTaus :
        sac = [pc |-> "new", critics |-> critics, tau |-> tau]

\* SACPixelAgent.__init__
SacConstruct ==
    /\ sac.pc = "new"
    /\ IF \E i \in 1..Len(sac.critics) : GetAttrModuleRaises(sac.critics[i])
       THEN sac' = [pc |-> "raised", critics |-> sac.critics, tau |-> sac.tau,
                    error |-> "AttributeError"]
       ELSE LET qfs == QfsUnwrapped(sac.critics)
            IN  sac' = [pc |-> "idle", critics |-> sac.critics, qfs |-> qfs,
                        target |-> qfs,
                        requires_grad |-> [i \in 1..Len(qfs) |-> FALSE],
                        tau |-> sac.tau, k |-> 0, prev |-> qfs,
                        ver |-> [i \in 1..NumCritics |-> 0],
                        seen |-> <<>>, last |-> "init", emas |-> 0]
    /\ UNCHANGED <<lv, th, rssm, player, actor, bm, shp, dst, ckpt, obt, tst>>

SacBuildNext == SacConstruct \/ SacNext

InitSacBuild == SacNew /\ lv = Idle /\ th = Idle /\ rssm = Idle /\ player = Idle
    /\ actor = Idle /\ bm = Idle /\ shp = Idle
    /\ dst = Idle /\ ckpt = Idle /\ obt = Idle /\ tst = Idle

SpecSacBuild == InitSacBuild /\ [][SacBuildNext]_vars

(***************************************************************************)
(* RSSM (dreamer_v3/agent.py).  Tensors of shape (1, B, ...) are functions *)
(* over Batch.  A stochastic state is the flat vector of StochasticSize    *)
(* categorical variables of Discrete classes each.  The recurrent state    *)
(* has one component.  Logits are kept as the rationals exp(logit), one    *)
(* per class, so softmax is division by their sum and probs_to_logits is   *)
(* the identity on probabilities.                                          *)
(*                                                                         *)
(* The three networks are learned functions defined outside the module     *)
(* (MLP, LayerNormGRUCell): they are members of a small family indexed by  *)
(* the parameters rssm.par, each acting on one batch row at a time.        *)
(***************************************************************************)
Discrete == 2

Batch == {1, 2}
StochVars == {1}
StochasticSize == Cardinality(StochVars)
HVals == {-1, 0, 1}
ActionVals == {<<1, 0>>, <<0, 1>>}
EmbedVals == {0, 1}
UnimixVals == {Zero, Q(1, 2), One}
Nil == <<>>

RssmPars ==
    { [rb |-> 1, rh |-> 1, rs |-> 1, ra |-> 1, tb |-> 1, th |-> 1, pb |-> 0, ph |-> 1, pe |-> 1],
      [rb |-> 2, rh |-> 2, rs |-> 1, ra |-> 2, tb |-> 2, th |-> 1, pb |-> 1, ph |-> 0, pe |-> 2],
      [rb |-> 0, rh |-> 1, rs |-> 2, ra |-> 1, tb |-> 0, th |-> 2, pb |-> 2, ph |-> 1, pe |-> 1] }

\* a row vector read as one number by the first layer of a network
Code(v) == Sum([i \in 1..Len(v) |-> i * v[i]])

\* RecurrentModel.forward: self.rnn(self.mlp(input), recurrent_state), with
\* input = torch.cat((posterior, action), -1)
RecurrentModel(par, posterior, action, recurrent_state) ==
    ((par.rb + par.rh * recurrent_state + par.rs * Code(posterior)
        + par.ra * Code(action)) % 3) - 1

\* self.transition_model(recurrent_out): flat logits, here exp(logit)
TransitionModel(par, recurrent_out) ==
    [i \in 1..(StochasticSize * Discrete) |->
        QInt(1 + ((par.tb * i + par.th * recurrent_out * i + i * i) % 3))]

\* self.representation_model(torch.cat((recurrent_state, embedded_obs), -1))
RepresentationModel(par, recurrent_state, embedded_obs) ==
    [i \in 1..(StochasticSize * Discrete) |->
        QInt(1 + ((par.pb * i + par.ph * recurrent_state * i + par.pe * embedded_obs * i) % 3))]

\* logits.view(*logits.shape[:-1], -1, self.discrete): variable n of a flat vector
Group(flat, n) == SubSeq(flat, (n - 1) * Discrete + 1, n * Discrete)

RECURSIVE Flatten(_)
Flatten(groups) == IF groups = <<>> THEN <<>> ELSE groups[1] \o Flatten(Tail(groups))

NumGroups(flat) == Len(flat) \div Discrete

\* probs = (1 - unimix) * softmax(logits) + unimix * ones / self.discrete
UnimixProbsOverUnmixed(unimix, group) ==
    [k \in 1..Len(group) |->
        QAdd(QDiv(group[k], QSum(group)), QDiv(unimix, QInt(Discrete)))]
UnimixProbs(unimix, group) ==
    [k \in 1..Len(group) |->
        QAdd(QMul(QSub(One, unimix), QDiv(group[k], QSum(group))),
             QDiv(unimix, QInt(Discrete)))]

\* RSSM._uniform_mix for the 3-dimensional logits dynamic works on
UniformMix(unimix, logits) ==
    IF QLt(Zero, unimix)
    THEN Flatten([n \in 1..NumGroups(logits) |-> UnimixProbs(unimix, Group(logits, n))])
    ELSE logits

\* OneHotCategorical.mode: one_hot(probs.argmax(-1)), the first maximal class
ArgMax(group) ==
    CHOOSE k \in 1..Len(group) :
        /\ \A j \in 1..Len(group) : QLe(group[j], group[k])
        /\ \A j \in 1..(k - 1) : QLt(group[j], group[k])

OneHotInt(k, n) == [i \in 1..n |-> IF i = k THEN 1 ELSE 0]

\* compute_stochastic_state(logits, discrete, sample=False): dist.mode
StochasticMode(logits) ==
    Flatten([n \in 1..NumGroups(logits) |-> OneHotInt(ArgMax(Group(logits, n)), Discrete)])

\* compute_stochastic_state(logits, discrete, sample=True): dist.rsample()
\* draws, per variable, any class of positive probability
StochasticSamples(logits) ==
    {Flatten(pick) : pick \in
        {f \in [1..NumGroups(logits) -> {OneHotInt(k, Discrete) : k \in 1..Discrete}] :
            \A n \in 1..NumGroups(logits) :
                \E k \in 1..Discrete : f[n][k] = 1 /\ QLt(Zero, Group(logits, n)[k])}}

\* torch.tanh(torch.zeros_like(recurrent_state))
TanhOfZeros == 0

\* line 373: action = (1 - is_first) * action
ResetActionKept(is_first, action) == action
ResetAction(is_first, action) == [i \in 1..Len(action) |-> (1 - is_first) * action[i]]

\* line 374: recurrent_state = (1 - is_first) * recurrent_state + is_first * tanh(0)
ResetRecurrent(is_first, recurrent_state) ==
    (1 - is_first) * recurrent_state + is_first * TanhOfZeros

\* lines 376-378: posterior = (1 - is_first) * posterior
\*                          + is_first * self._transition(recurrent_state, sample_state=False)[1]
ResetPosteriorKept(par, unimix, is_first, posterior, recurrent_state) == posterior
ResetPosteriorSum(par, unimix, is_first, posterior, recurrent_state) ==
    LET prior == StochasticMode(UniformMix(unimix, TransitionModel(par, recurrent_state)))
    IN  [i \in 1..Len(posterior) |-> posterior[i] + is_first * prior[i]]
ResetPosterior(par, unimix, is_first, posterior, recurrent_state) ==
    LET prior == StochasticMode(UniformMix(unimix, TransitionModel(par, recurrent_state)))
    IN  [i \in 1..Len(posterior) |-> (1 - is_first) * posterior[i] + is_first * prior[i]]

\* the posteriors a caller may hand in: one-hot per variable, or the zeros
\* a training sequence starts from
InPosteriors ==
    {Flatten(f) : f \in [1..StochasticSize -> {OneHotInt(k, Discrete) : k \in 1..Discrete}]}
        \cup {[i \in 1..(StochasticSize * Discrete) |-> 0]}

RssmInit ==
    \E par \in RssmPars, unimix \in UnimixVals :
    \E recurrent_state \in [Batch -> HVals], posterior \in [Batch -> InPosteriors] :
        rssm = [pc |-> "carry", par |-> par, unimix |-> unimix,
                recurrent_state |-> recurrent_state, posterior |-> posterior,
                action |-> Nil, embedded_obs |-> Nil, is_first |-> Nil, fed |-> Nil,
                prior |-> Nil, prior_logits |-> Nil, posterior_logits |-> Nil,
                returned |-> Nil]

\* dynamic is called; lines 373-378 mask the arguments where is_first is set.
\* rssm.fed holds the locals action, recurrent_state, posterior after line 378.
DynamicReset ==
    /\ rssm.pc = "carry"
    /\ \E action \in [Batch -> ActionVals], embedded_obs \in [Batch -> EmbedVals],
          is_first \in [Batch -> {0, 1}] :
          rssm' = [rssm EXCEPT
              !.pc = "reset",
              !.action = action, !.embedded_obs = embedded_obs, !.is_first = is_first,
              !.fed = [b \in Batch |->
                  LET h == ResetRecurrent(is_first[b], rssm.recurrent_state[b])
                  IN  [action |-> ResetAction(is_first[b], action[b]),
                       recurrent_state |-> h,
                       posterior |-> ResetPosterior(rssm.par, rssm.unimix, is_first[b],
                                                    rssm.posterior[b], h)]]]
    /\ UNCHANGED <<lv, th, sac, player, actor, bm, shp, dst, ckpt, obt, tst>>

\* line 379: recurrent_state = self.recurrent_model(cat((posterior, action)), recurrent_state)
DynamicRecurrent ==
    /\ rssm.pc = "reset"
    /\ rssm' = [rssm EXCEPT
          !.pc = "recurrent",
          !.recurrent_state = [b \in Batch |->
              RecurrentModel(rssm.par, rssm.fed[b].posterior, rssm.fed[b].action,
                             rssm.fed[b].recurrent_state)],
          !.posterior = Nil, !.action = Nil, !.fed = Nil]
    /\ UNCHANGED <<lv, th, sac, player, actor, bm, shp, dst, ckpt, obt, tst>>

\* line 380: prior_logits, prior = self._transition(recurrent_state)
DynamicPrior ==
    /\ rssm.pc = "recurrent"
    /\ LET logits == [b \in Batch |->
               UniformMix(rssm.unimix, TransitionModel(rssm.par, rssm.recurrent_state[b]))]
       IN  \E prior \in [Batch -> InPosteriors] :
              /\ \A b \in Batch : prior[b] \in StochasticSamples(logits[b])
              /\ rssm' = [rssm EXCEPT !.pc = "prior", !.prior_logits = logits, !.prior = prior]
    /\ UNCHANGED <<lv, th, sac, player, actor, bm, shp, dst, ckpt, obt, tst>>

\* lines 381-382: posterior_logits, posterior = self._representation(...); return
DynamicPosterior ==
    /\ rssm.pc = "prior"
    /\ LET logits == [b \in Batch |->
               UniformMix(rssm.unimix,
                          RepresentationModel(rssm.par, rssm.recurrent_state[b],
                                              rssm.embedded_obs[b]))]
       IN  \E posterior \in [Batch -> InPosteriors] :
              /\ \A b \in Batch : posterior[b] \in StochasticSamples(logits[b])
              /\ rssm' = [rssm EXCEPT !.pc = "returned", !.posterior_logits = logits,
                                      !.posterior = posterior,
                                      !.returned = <<rssm.recurrent_state, posterior,
                                                     rssm.prior, logits, rssm.prior_logits>>]
    /\ UNCHANGED <<lv, th, sac, player, actor, bm, shp, dst, ckpt, obt, tst>>

\* lines 440-441: the recurrent state imagination computes
ImaginedRecurrentNoAction(par, prior, actions, recurrent_state) ==
    RecurrentModel(par, prior, ResetAction(1, actions), recurrent_state)
ImaginedRecurrent(par, prior, actions, recurrent_state) ==
    RecurrentModel(par, prior, actions, recurrent_state)

\* imagination(prior, recurrent_state, actions), lines 429-445; the stochastic
\* state handed in is the one the caller carries
Imagination ==
    /\ rssm.pc = "carry"
    /\ \E actions \in [Batch -> ActionVals] :
       LET recurrent_state == [b \in Batch |->
               ImaginedRecurrent(rssm.par, rssm.posterior[b], actions[b],
                                 rssm.recurrent_state[b])]
           logits == [b \in Batch |->
               UniformMix(rssm.unimix, TransitionModel(rssm.par, recurrent_state[b]))]
       IN  \E imagined_prior \in [Batch -> InPosteriors] :
              /\ \A b \in Batch : imagined_prior[b] \in StochasticSamples(logits[b])
              /\ rssm' = [rssm EXCEPT !.pc = "imagined",
                                      !.recurrent_state = recurrent_state,
                                      !.prior_logits = logits, !.prior = imagined_prior,
                                      !.returned = <<imagined_prior, recurrent_state>>]
    /\ UNCHANGED <<lv, th, sac, player, actor, bm, shp, dst, ckpt, obt, tst>>

\* the caller carries the returned stochastic state (the posterior of dynamic,
\* the prior of imagination) and recurrent state to the next step
RssmCarry ==
    /\ rssm.pc \in {"returned", "imagined"}
    /\ rssm' = [rssm EXCEPT !.pc = "carry", !.embedded_obs = Nil, !.is_first = Nil,
                            !.posterior = IF rssm.pc = "imagined" THEN rssm.prior ELSE @,
                            !.prior = Nil, !.prior_logits = Nil, !.posterior_logits = Nil,
                            !.returned = Nil]
    /\ UNCHANGED <<lv, th, sac, player, actor, bm, shp, dst, ckpt, obt, tst>>

RssmNext ==
    \/ DynamicReset
    \/ DynamicRecurrent
    \/ DynamicPrior
    \/ DynamicPosterior
    \/ Imagination
    \/ RssmCarry

InitRssm == RssmInit /\ lv = Idle /\ th = Idle /\ sac = Idle /\ player = Idle
    /\ actor = Idle /\ bm = Idle /\ shp = Idle
    /\ dst = Idle /\ ckpt = Idle /\ obt = Idle /\ tst = Idle

SpecRssm == InitRssm /\ [][RssmNext]_vars

(***************************************************************************)
(* PlayerDV3 (dreamer_v3/agent.py): one stored action, recurrent state and *)
(* stochastic state per environment.  Environment e of the model is index  *)
(* e - 1 of the code.  Before the first init_states() the three attributes *)
(* do not exist (Nil).  The actor has one discrete head; the encoder maps  *)
(* an observation to its embedding.                                        *)
(***************************************************************************)
Envs == {1, 2}
ActorPars == {0, 1}
PlayerUnimixVals == {Zero, Q(1, 2)}

\* the world models a player is built around (rssm.recurrent_model.module, ...)
PlayerPars == {p \in RssmPars : p.rb = 1}

\* the distribution of the player's actor once constructed, and the
\* exploration amount of the player
PlayerDistributions == {"discrete", "normal"}
ExplAmounts == {Zero, Q(1, 2)}

\* torch.rand draws in [0, 1); Normal(...).sample() draws any real
RandVals == {Zero, Q(1, 4), Q(3, 4)}
NoiseVals == {-2, 1}

\* get_greedy_action(obs, is_training=True, mask=None): the is_training
\* argument, passed or left to its default (line 559)
IsTrainingDefault == TRUE
NotPassed == [given |-> FALSE, value |-> IsTrainingDefault]
Passed(v) == [given |-> TRUE, value |-> v]
IsTrainingArgs == {NotPassed, Passed(TRUE), Passed(FALSE)}
IsTraining(arg) == IF arg.given THEN arg.value ELSE IsTrainingDefault

\* the arguments init_states is called with: None (the default) or a
\* sequence of indices, the empty one included
Unspecified == [none |-> TRUE, seq |-> <<>>]
Listed(seq) == [none |-> FALSE, seq |-> seq]
ResetEnvsArgs ==
    {Unspecified} \cup {Listed(q) : q \in {<<>>, <<1>>, <<2>>, <<1, 2>>, <<2, 1>>, <<1, 1>>}}

Range(seq) == {seq[i] : i \in 1..Len(seq)}

\* Actor.model and its head: the logits of the head for one row, as exp(logit)
ActorModel(apar, stochastic_state, recurrent_state) ==
    [i \in 1..Len(CHOOSE a \in ActionVals : TRUE) |->
        QInt(1 + ((apar + Code(stochastic_state) * i + recurrent_state * i) % 3))]

\* Actor._uniform_mix, lines 717-723: uniform = ones / probs.shape[-1]
ActorUniformMix(unimix, logits) ==
    IF QLt(Zero, unimix)
    THEN [k \in 1..Len(logits) |->
            QAdd(QMul(QSub(One, unimix), QDiv(logits[k], QSum(logits))),
                 QDiv(unimix, QInt(Len(logits))))]
    ELSE logits

\* Actor.forward, lines 707-714, one row: rsample() when is_training, else mode
ActorActions(is_training, logits) ==
    IF is_training
    THEN {OneHotInt(k, Len(logits)) : k \in {j \in 1..Len(logits) : QLt(Zero, logits[j])}}
    ELSE {OneHotInt(ArgMax(logits), Len(logits))}

\* Actor.forward, lines 682-703, one row of a continuous actor: a draw from
\* Normal (any real) or from a distribution bounded to [-1, 1]
ContinuousActions(distribution) ==
    IF distribution = "normal"
    THEN {<<v>> : v \in {-2, 1}}
    ELSE {<<v>> : v \in {-1, 1}}

\* Actor.forward, one row, for the output `out` of the head
ActorForward(distribution, unimix, is_training, out) ==
    IF distribution = "discrete"
    THEN ActorActions(is_training, ActorUniformMix(unimix, out))
    ELSE ContinuousActions(distribution)

\* np.sum(self.actions_dim): one discrete head, or one continuous component
ActionsDim(distribution) ==
    IF distribution = "discrete" THEN Len(CHOOSE a \in ActionVals : TRUE) ELSE 1

\* the episode-start values of one environment, lines 510-516 and 518-522
StartActions == [i \in 1..ActionsDim(player.distribution) |-> 0]
StartRecurrent == TanhOfZeros
StartStochastic(par, unimix) ==
    StochasticMode(UniformMix(unimix, TransitionModel(par, StartRecurrent)))

\* init_states, line 509: the branch that rebuilds the three tensors
ResetsAll(reset_envs) == reset_envs.none \/ Len(reset_envs.seq) = 0

PlayerInit ==
    \E par \in PlayerPars, apar \in ActorPars, unimix \in PlayerUnimixVals,
       distribution \in PlayerDistributions, expl_amount \in ExplAmounts :
        player = [par |-> par, apar |-> apar, unimix |-> unimix,
                  distribution |-> distribution, expl_amount |-> expl_amount,
                  actions |-> Nil, recurrent_state |-> Nil, stochastic_state |-> Nil,
                  last |-> [op |-> "__init__", raised |-> FALSE]]

\* init_states(reset_envs), lines 509-522
InitStates ==
    \E reset_envs \in ResetEnvsArgs :
        /\ IF ResetsAll(reset_envs)
           THEN player' = [player EXCEPT
                    !.actions = [e \in Envs |-> StartActions],
                    !.recurrent_state = [e \in Envs |-> StartRecurrent],
                    !.stochastic_state = [e \in Envs |-> StartStochastic(player.par, player.unimix)],
                    !.last = [op |-> "init_states", reset_envs |-> reset_envs, raised |-> FALSE]]
           ELSE IF player.actions = Nil
           THEN \* self.actions does not exist yet: AttributeError
                player' = [player EXCEPT
                    !.last = [op |-> "init_states", reset_envs |-> reset_envs, raised |-> TRUE]]
           ELSE player' = [player EXCEPT
                    !.actions = [e \in Envs |->
                        IF e \in Range(reset_envs.seq) THEN StartActions ELSE player.actions[e]],
                    !.recurrent_state = [e \in Envs |->
                        IF e \in Range(reset_envs.seq) THEN StartRecurrent
                        ELSE player.recurrent_state[e]],
                    !.stochastic_state = [e \in Envs |->
                        IF e \in Range(reset_envs.seq)
                        THEN StartStochastic(player.par, player.unimix)
                        ELSE player.stochastic_state[e]],
                    !.last = [op |-> "init_states", reset_envs |-> reset_envs, raised |-> FALSE]]
        /\ UNCHANGED <<lv, th, sac, rssm, actor, bm, shp, dst, ckpt, obt, tst>>

\* the batched results that take row e from rows[e], for e in 1..n
RECURSIVE RowProduct(_, _)
RowProduct(rows, n) ==
    IF n = 0 THEN {<<>>}
    ELSE {Append(p, r) : p \in RowProduct(rows, n - 1), r \in rows[n]}

\* get_greedy_action for one environment: the (recurrent state, stochastic
\* state, action) triples lines 574-582 can produce
GreedyRowStaleActor(actor_cfg, par, unimix, is_training, embedded_obs, stochastic_state, actions, recurrent_state) ==
    LET h == RecurrentModel(par, stochastic_state, actions, recurrent_state)
        logits == UniformMix(unimix, RepresentationModel(par, h, embedded_obs))
    IN  UNION {
            {[recurrent_state |-> h, stochastic_state |-> z, actions |-> a] :
                a \in ActorForward(actor_cfg.distribution, unimix, is_training,
                                   ActorModel(actor_cfg.apar, stochastic_state, recurrent_state))} :
            z \in StochasticSamples(logits)}
GreedyRow(actor_cfg, par, unimix, is_training, embedded_obs, stochastic_state, actions, recurrent_state) ==
    LET h == RecurrentModel(par, stochastic_state, actions, recurrent_state)
        logits == UniformMix(unimix, RepresentationModel(par, h, embedded_obs))
    IN  UNION {
            {[recurrent_state |-> h, stochastic_state |-> z, actions |-> a] :
                a \in ActorForward(actor_cfg.distribution, unimix, is_training,
                                   ActorModel(actor_cfg.apar, z, h))} :
            z \in StochasticSamples(logits)}

\* the batched outcomes of get_greedy_action(obs, is_training, mask) on the
\* stored state, lines 573-582, over the embeddings self.encoder(obs) of the
\* observations of the environments
GreedyOutcomes(is_training) ==
    RowProduct([e \in Envs |->
                   UNION {GreedyRow([apar |-> player.apar, distribution |-> player.distribution],
                                    player.par, player.unimix, is_training,
                                    embedded_obs, player.stochastic_state[e], player.actions[e],
                                    player.recurrent_state[e]) :
                          embedded_obs \in EmbedVals}],
               Cardinality(Envs))

\* get_greedy_action(obs, is_training, mask), lines 573-583.  The evaluation
\* branch of a continuous actor (lines 699-701) returns a single row; it is
\* entered with the discrete actor only.
GetGreedyAction ==
    /\ player.actions # Nil
    /\ \E is_training \in IsTrainingArgs :
          /\ player.distribution = "discrete" \/ IsTraining(is_training)
          /\ \E out \in GreedyOutcomes(IsTraining(is_training)) :
                player' = [player EXCEPT
                    !.recurrent_state = [e \in Envs |-> out[e].recurrent_state],
                    !.stochastic_state = [e \in Envs |-> out[e].stochastic_state],
                    !.actions = [e \in Envs |-> Flatten(<<out[e].actions>>)],
                    !.last = [op |-> "get_greedy_action", is_training |-> is_training,
                              returned |-> [e \in Envs |-> <<out[e].actions>>],
                              raised |-> FALSE]]
    /\ UNCHANGED <<lv, th, sac, rssm, actor, bm, shp, dst, ckpt, obt, tst>>

ClipInt(v, lo, hi) == IF v < lo THEN lo ELSE IF v > hi THEN hi ELSE v

\* line 544, one row: torch.clip(Normal(self.actions, self.expl_amount).sample(), -1, 1)
NoisyUnclipped(action) == [1..Len(action) -> NoiseVals]
NoisyClipped(action) == [1..Len(action) -> {ClipInt(n, -1, 1) : n \in NoiseVals}]

\* line 549, one row: OneHotCategorical(logits=torch.zeros_like(act)).sample()
UniformOneHots(act) == {OneHotInt(k, Len(act)) : k \in 1..Len(act)}

\* lines 541-553 on the actions get_greedy_action returned (one head): the
\* exploration actions, one row per environment.  torch.rand(act.shape[:1])
\* is one draw u for the whole head.
ExploreOutcomes(is_continuous, expl_amount, acts) ==
    IF is_continuous
    THEN IF QLt(Zero, expl_amount)
         THEN RowProduct([e \in Envs |-> NoisyClipped(acts[e])], Cardinality(Envs))
         ELSE {acts}
    ELSE UNION {
             {[e \in Envs |-> IF QLt(u, expl_amount) THEN sample[e] ELSE acts[e]] :
                 sample \in RowProduct([e \in Envs |-> UniformOneHots(acts[e])],
                                       Cardinality(Envs))} :
             u \in RandVals}

\* get_exploration_action(obs, is_continuous, mask), lines 540-554.  The
\* caller passes the is_continuous of the action space, the one the actor
\* was built with.
GetExplorationActionKeepsGreedy ==
    /\ player.actions # Nil
    /\ \E is_continuous \in {player.distribution # "discrete"} :
       \E out \in GreedyOutcomes(IsTraining(NotPassed)) :
       \E expl \in ExploreOutcomes(is_continuous, player.expl_amount,
                                   [e \in Envs |-> out[e].actions]) :
          player' = [player EXCEPT
              !.recurrent_state = [e \in Envs |-> out[e].recurrent_state],
              !.stochastic_state = [e \in Envs |-> out[e].stochastic_state],
              !.actions = [e \in Envs |-> Flatten(<<out[e].actions>>)],
              !.last = [op |-> "get_exploration_action", is_continuous |-> is_continuous,
                        returned |-> [e \in Envs |-> <<expl[e]>>],
                        raised |-> FALSE]]
    /\ UNCHANGED <<lv, th, sac, rssm, actor, bm, shp, dst, ckpt, obt, tst>>
GetExplorationAction ==
    /\ player.actions # Nil
    /\ \E is_continuous \in {player.distribution # "discrete"} :
       \E res \in UNION {
                 {[recurrent_state |-> [e \in Envs |-> out[e].recurrent_state],
                   stochastic_state |-> [e \in Envs |-> out[e].stochastic_state],
                   expl_actions |-> expl] :
                      expl \in ExploreOutcomes(is_continuous, player.expl_amount,
                                               [e \in Envs |-> out[e].actions])} :
                 out \in GreedyOutcomes(IsTraining(NotPassed))} :
          player' = [player EXCEPT
              !.recurrent_state = res.recurrent_state,
              !.stochastic_state = res.stochastic_state,
              !.actions = [e \in Envs |-> Flatten(<<res.expl_actions[e]>>)],
              !.last = [op |-> "get_exploration_action", is_continuous |-> is_continuous,
                        returned |-> [e \in Envs |-> <<res.expl_actions[e]>>],
                        raised |-> FALSE]]
    /\ UNCHANGED <<lv, th, sac, rssm, actor, bm, shp, dst, ckpt, obt, tst>>

PlayerNext == InitStates \/ GetGreedyAction \/ GetExplorationAction

InitPlayer == PlayerInit /\ lv = Idle /\ th = Idle /\ sac = Idle /\ rssm = Idle
    /\ actor = Idle /\ bm = Idle /\ shp = Idle
    /\ dst = Idle /\ ckpt = Idle /\ obt = Idle /\ tst = Idle

SpecPlayer == InitPlayer /\ [][PlayerNext]_vars

(***************************************************************************)
(* Actor and MinedojoActor (dreamer_v3/agent.py): construction.  A string  *)
(* is the sequence of its characters, so that str.lower() is computed.     *)
(* actor.pc is "new" before __init__ runs, then "built" or "raised".       *)
(***************************************************************************)
Uppers ==
    <<"A", "B", "C", "D", "E", "F", "G", "H", "I", "J", "K", "L", "M",
      "N", "O", "P", "Q", "R", "S", "T", "U", "V", "W", "X", "Y", "Z">>
Lowers ==
    <<"a", "b", "c", "d", "e", "f", "g", "h", "i", "j", "k", "l", "m",
      "n", "o", "p", "q", "r", "s", "t", "u", "v", "w", "x", "y", "z">>

\* str.lower()
LowerChar(c) ==
    IF \E i \in 1..Len(Uppers) : Uppers[i] = c
    THEN Lowers[CHOOSE i \in 1..Len(Uppers) : Uppers[i] = c]
    ELSE c
StrLower(str) == [i \in 1..Len(str) |-> LowerChar(str[i])]

DistAuto == <<"a", "u", "t", "o">>
DistNormal == <<"n", "o", "r", "m", "a", "l">>
DistTanhNormal == <<"t", "a", "n", "h", "_", "n", "o", "r", "m", "a", "l">>
DistDiscrete == <<"d", "i", "s", "c", "r", "e", "t", "e">>
DistTruncNormal == <<"t", "r", "u", "n", "c", "_", "n", "o", "r", "m", "a", "l">>

\* line 632: the names __init__ accepts
DistributionNames == {DistAuto, DistNormal, DistTanhNormal, DistDiscrete, DistTruncNormal}

\* the distribution arguments a caller passes ("auto" is the default of
\* __init__ and of DreamerV2Args.actor_distribution)
DistributionArgs ==
    DistributionNames \cup
    { <<"A", "U", "T", "O">>,
      <<"D", "i", "s", "c", "r", "e", "t", "e">>,
      <<"N", "o", "r", "m", "a", "l">>,
      <<"T", "R", "U", "N", "C", "_", "N", "O", "R", "M", "A", "L">>,
      <<"b", "e", "t", "a">>,
      <<"t", "a", "n", "h">>,
      <<"c", "a", "t", "e", "g", "o", "r", "i", "c", "a", "l">>,
      <<>> }

ActorClasses == {"Actor", "MinedojoActor"}

\* unimix: float = 0.01, the default of Actor.__init__ (line 628) and the
\* value every MinedojoActor gets (its __init__ passes none on)
UnimixDefault == Q(1, 100)
ActorUnimixArgs == {Zero, UnimixDefault, Q(1, 2)}

\* the functional-action head of MineDojo has the categories 0..18
ActionTypeDim == 19
ActorActionsDims == {<<2>>, <<3, 2>>}
MinedojoActionsDims == {<<ActionTypeDim, 2, 2>>}

\* lines 632 and 637: the conditions under which __init__ raises ValueError
RejectedIgnoringSpace(distribution, is_continuous) ==
    distribution \notin DistributionNames
Rejected(distribution, is_continuous) ==
    \/ distribution \notin DistributionNames
    \/ distribution = DistDiscrete /\ is_continuous

\* lines 639-643
ResolvedAutoNormal(distribution, is_continuous) ==
    IF distribution = DistAuto
    THEN IF is_continuous THEN DistNormal ELSE DistDiscrete
    ELSE distribution
Resolved(distribution, is_continuous) ==
    IF distribution = DistAuto
    THEN IF is_continuous THEN DistTruncNormal ELSE DistDiscrete
    ELSE distribution

ActorInit ==
    \E cls \in ActorClasses, distribution \in DistributionArgs, is_continuous \in BOOLEAN :
    \E unimix \in IF cls = "Actor" THEN ActorUnimixArgs ELSE {UnimixDefault} :
    \E actions_dim \in IF cls = "Actor" THEN ActorActionsDims ELSE MinedojoActionsDims :
        \* MineDojo's action space is discrete (MinedojoActor's heads are categorical)
        /\ cls = "MinedojoActor" => ~is_continuous
        /\ actor = [pc |-> "new", cls |-> cls,
                 args |-> [distribution |-> distribution, is_continuous |-> is_continuous,
                           unimix |-> unimix, actions_dim |-> actions_dim],
                 obj |-> Nil, error |-> "none", call |-> Nil]

\* Actor.__init__, lines 631-664 (MinedojoActor.__init__, lines 740-751,
\* hands its arguments to it)
ActorConstruct ==
    /\ actor.pc = "new"
    /\ LET distribution == StrLower(actor.args.distribution)
           is_continuous == actor.args.is_continuous
       IN  IF Rejected(distribution, is_continuous)
           THEN actor' = [actor EXCEPT !.pc = "raised", !.error = "ValueError"]
           ELSE actor' = [actor EXCEPT
                    !.pc = "built",
                    !.obj = [distribution |-> Resolved(distribution, is_continuous),
                             is_continuous |-> is_continuous,
                             unimix |-> actor.args.unimix,
                             actions_dim |-> actor.args.actions_dim]]
    /\ UNCHANGED <<lv, th, sac, rssm, player, bm, shp, dst, ckpt, obt, tst>>

(***************************************************************************)
(* Actor.forward and MinedojoActor.forward.  The state tensor has shape    *)
(* (1, B, latent): a tensor is a sequence of B rows.  self.model and the   *)
(* heads are learned functions of the state: the state is one of           *)
(* ForwardSeeds, and HeadOut gives exp(logit) per category.  A logit       *)
(* of negative infinity is the value Zero.  Categories are numbered from 0 *)
(* in the code: category c is position c + 1 of a row.                     *)
(***************************************************************************)
ForwardRows == {1, 2}
ForwardSeeds == {0, 1}

\* the values exp(logit) a head can give
HeadVals == <<1, 2, 4>>
MinedojoHeadVals == <<1, 2, 500>>

\* lines 680-681 / 767-768: head(out) for head j (from 0) and row b
HeadOut(vals, seed, j, b, n) ==
    [k \in 1..n |-> QInt(vals[((seed + j + 2 * b + k) % Len(vals)) + 1])]

PreDist(vals, seed, dims, rows) ==
    [j \in 1..Len(dims) |-> [b \in 1..rows |-> HeadOut(vals, seed, j - 1, b, dims[j])]]

\* the probabilities of OneHotCategoricalStraightThrough(logits=...)
Probs(logits) == [k \in 1..Len(logits) |-> QDiv(logits[k], QSum(logits))]

\* Actor.forward, lines 704-714: the distributions of the discrete heads
PlainDists(unimix, pre) ==
    [j \in 1..Len(pre) |-> [b \in 1..Len(pre[j]) |-> ActorUniformMix(unimix, pre[j][b])]]

\* the action tensors that can be drawn from the heads' distributions
RECURSIVE HeadActions(_, _, _)
HeadActions(is_training, dists, j) ==
    IF j = 0 THEN {<<>>}
    ELSE {Append(prev, act) :
            prev \in HeadActions(is_training, dists, j - 1),
            act \in RowProduct([b \in 1..Len(dists[j]) |-> ActorActions(is_training, dists[j][b])],
                               Len(dists[j]))}

\* Actor.forward, lines 682-703: the one action tensor of a continuous actor,
\* kept as its shape and the interval its components lie in.  Out of
\* training the best of 100 samples is reshaped by view(1, 1, -1).
ContinuousTensor(distribution, is_training, actions_dim, rows) ==
    [shape |-> IF is_training THEN <<1, rows, Sum(actions_dim)>>
               ELSE <<1, 1, rows * rows * Sum(actions_dim)>>,
     bounded |-> distribution # DistNormal]

\* Actor.forward(state, is_training, mask), lines 680-715
ActorForwardCall ==
    /\ actor.pc = "built"
    /\ actor.cls = "Actor"
    /\ \E seed \in ForwardSeeds, is_training \in BOOLEAN, rows \in ForwardRows :
       LET obj == actor.obj
           pre == PreDist(HeadVals, seed, obj.actions_dim, rows)
           dists == PlainDists(obj.unimix, pre)
       IN  IF obj.is_continuous
           THEN actor' = [actor EXCEPT
                    !.pc = "returned",
                    !.call = [is_training |-> is_training, rows |-> rows, state |-> seed,
                              dists |-> Nil,
                              actions |-> <<ContinuousTensor(obj.distribution, is_training,
                                                             obj.actions_dim, rows)>>]]
           ELSE \E actions \in HeadActions(is_training, dists, Len(dists)) :
                  actor' = [actor EXCEPT
                    !.pc = "returned",
                    !.call = [is_training |-> is_training, rows |-> rows, state |-> seed,
                              dists |-> dists, actions |-> actions]]
    /\ UNCHANGED <<lv, th, sac, rssm, player, bm, shp, dst, ckpt, obt, tst>>

\* line 781: the action type "craft"; lines 788, 790: equip, place, destroy
Craft == 15
Equip == 16
Place == 17
Destroy == 18

\* the mask dictionary: per row, the categories each mask allows
NoMask == [given |-> FALSE, action_type |-> <<>>, craft_smelt |-> <<>>,
           equip_place |-> <<>>, destroy |-> <<>>]
MaskDicts ==
    {[given |-> TRUE, action_type |-> <<{0, Craft}, {Craft, Equip}>>,
      craft_smelt |-> <<{0}, {0, 1}>>, equip_place |-> <<{1}, {0}>>,
      destroy |-> <<{0}, {1}>>],
     [given |-> TRUE, action_type |-> <<{Craft}, {Destroy}>>,
      craft_smelt |-> <<{1}, {0}>>, equip_place |-> <<{0, 1}, {1}>>,
      destroy |-> <<{1}, {0}>>],
     [given |-> TRUE, action_type |-> <<{Place, Destroy}, {3, Craft}>>,
      craft_smelt |-> <<{0, 1}, {1}>>, equip_place |-> <<{0}, {0, 1}>>,
      destroy |-> <<{0}, {0, 1}>>]}
MaskArgs == {NoMask} \cup MaskDicts

\* logits[torch.logical_not(mask)] = -torch.inf
Masked(logits, allowed) ==
    [k \in 1..Len(logits) |-> IF (k - 1) \in allowed THEN logits[k] ELSE Zero]

\* lines 773-792 for one row: the logits of head i (from 0) after the mask
MaskedLogitsAlwaysCraft(i, mask, b, sampled_action, logits) ==
    IF ~mask.given THEN logits
    ELSE IF i = 0 THEN Masked(logits, mask.action_type[b])
    ELSE IF i = 1
         THEN Masked(logits, mask.craft_smelt[b])
    ELSE IF sampled_action \in {Equip, Place} THEN Masked(logits, mask.equip_place[b])
    ELSE IF sampled_action = Destroy THEN Masked(logits, mask.destroy[b])
    ELSE logits
MaskedLogits(i, mask, b, sampled_action, logits) ==
    IF ~mask.given THEN logits
    ELSE IF i = 0 THEN Masked(logits, mask.action_type[b])
    ELSE IF i = 1
         THEN IF sampled_action = Craft THEN Masked(logits, mask.craft_smelt[b]) ELSE logits
    ELSE IF sampled_action \in {Equip, Place} THEN Masked(logits, mask.equip_place[b])
    ELSE IF sampled_action = Destroy THEN Masked(logits, mask.destroy[b])
    ELSE logits

\* line 784 assigns the whole (1, B, n) mask to the one row [t, b] left over
\* from the loop of head 1: the shapes agree only when B = 1
Line784Raises(i, mask, rows) == i = 2 /\ mask.given /\ rows > 1

\* line 798-799: functional_action = actions[0].argmax(dim=-1)
FunctionalAction(actions, b) ==
    IF actions = <<>> THEN 0
    ELSE (CHOOSE k \in 1..Len(actions[1][b]) : actions[1][b][k] = 1) - 1

\* lines 772-792: the logits of head i (from 0) for every row, after the mask
HeadLogits(i, mask, seed, dims, rows, actions) ==
    [b \in 1..rows |->
        MaskedLogits(i, mask, b, FunctionalAction(actions, b),
                     HeadOut(MinedojoHeadVals, seed, i, b, dims[i + 1]))]

\* lines 793-797: rsample() or mode of the head's distribution, row by row
HeadSamples(is_training, logits) ==
    RowProduct([b \in 1..Len(logits) |-> ActorActions(is_training, logits[b])], Len(logits))

\* MinedojoActor.forward(state, is_training, mask), lines 753-800: the three
\* heads (action type, craft/smelt argument, item argument) in index order
MinedojoForwardCall ==
    /\ actor.pc = "built"
    /\ actor.cls = "MinedojoActor"
    /\ \E seed \in ForwardSeeds, is_training \in BOOLEAN, rows \in ForwardRows,
          mask \in MaskArgs :
       LET dims == actor.obj.actions_dim
           lg0 == HeadLogits(0, mask, seed, dims, rows, <<>>)
       IN  \E a0 \in HeadSamples(is_training, lg0) :
           LET lg1 == HeadLogits(1, mask, seed, dims, rows, <<a0>>)
           IN  \E a1 \in HeadSamples(is_training, lg1) :
               IF Line784Raises(2, mask, rows)
               THEN actor' = [actor EXCEPT
                        !.pc = "failed", !.error = "RuntimeError",
                        !.call = [is_training |-> is_training, rows |-> rows,
                                  mask |-> mask, state |-> seed,
                                  dists |-> <<lg0, lg1>>, actions |-> <<a0, a1>>]]
               ELSE LET lg2 == HeadLogits(2, mask, seed, dims, rows, <<a0, a1>>)
                    IN  \E a2 \in HeadSamples(is_training, lg2) :
                          actor' = [actor EXCEPT
                            !.pc = "returned",
                            !.call = [is_training |-> is_training, rows |-> rows,
                                      mask |-> mask, state |-> seed,
                                      dists |-> <<lg0, lg1, lg2>>,
                                      actions |-> <<a0, a1, a2>>]]
    /\ UNCHANGED <<lv, th, sac, rssm, player, bm, shp, dst, ckpt, obt, tst>>

ActorNext == ActorConstruct \/ ActorForwardCall \/ MinedojoForwardCall

InitActor ==
    /\ ActorInit
    /\ lv = Idle /\ th = Idle /\ sac = Idle /\ rssm = Idle /\ player = Idle
    /\ bm = Idle /\ shp = Idle
    /\ dst = Idle /\ ckpt = Idle /\ obt = Idle /\ tst = Idle

SpecActor == InitActor /\ [][ActorNext]_vars

(***************************************************************************)
(* build_models.  The state is the call's position, its arguments, the     *)
(* activation classes bound so far and the components constructed so far,  *)
(* in the order of construction.                                           *)
(***************************************************************************)
\* attribute names of torch.nn (a few of them) and names given in args
NnAttributes == {"ELU", "SiLU", "Tanh", "ReLU"}
ActNameArgs == {"ELU", "SiLU", "elu", "Swish", ""}
MultiplierArgs == {-1, 0, 48}
DenseUnitsArgs == {-1, 0, 400}
\* cnn_keys, mlp_keys: at least one observation key is encoded
KeysArgs == {[cnn |-> TRUE, mlp |-> FALSE], [cnn |-> FALSE, mlp |-> TRUE],
             [cnn |-> TRUE, mlp |-> TRUE]}
BuildDistributionArgs == {DistAuto, DistDiscrete, <<"b", "e", "t", "a">>}

\* lines 842-859: the conditions under which a ValueError is raised
InvalidArgsStrict(args) ==
    \/ args.cnn_channels_multiplier < 0
    \/ args.dense_units < 0
    \/ args.cnn_act \notin NnAttributes
    \/ args.dense_act \notin NnAttributes
InvalidArgs(args) ==
    \/ args.cnn_channels_multiplier <= 0
    \/ args.dense_units <= 0
    \/ args.cnn_act \notin NnAttributes
    \/ args.dense_act \notin NnAttributes

\* lines 865-981: the components of the world model, in order of construction
WorldModelParts(keys) ==
    (IF keys.cnn THEN <<"cnn_encoder">> ELSE <<>>)
    \o (IF keys.mlp THEN <<"mlp_encoder">> ELSE <<>>)
    \o <<"encoder", "recurrent_model", "representation_model", "transition_model", "rssm">>
    \o (IF keys.cnn THEN <<"cnn_decoder">> ELSE <<>>)
    \o (IF keys.mlp THEN <<"mlp_decoder">> ELSE <<>>)
    \o <<"observation_model", "reward_model", "continue_model", "world_model">>

BuildInit ==
    \E cnn_channels_multiplier \in MultiplierArgs, dense_units \in DenseUnitsArgs,
       cnn_act \in ActNameArgs, dense_act \in ActNameArgs, keys \in KeysArgs,
       minedojo \in BOOLEAN, actor_distribution \in BuildDistributionArgs,
       is_continuous \in BOOLEAN :
        bm = [pc |-> "called",
              args |-> [cnn_channels_multiplier |-> cnn_channels_multiplier,
                        dense_units |-> dense_units, cnn_act |-> cnn_act,
                        dense_act |-> dense_act, keys |-> keys, minedojo |-> minedojo,
                        actor_distribution |-> actor_distribution,
                        is_continuous |-> is_continuous],
              cnn_act |-> "unbound", dense_act |-> "unbound",
              built |-> <<>>, error |-> "none"]

\* lines 842-859
BuildValidate ==
    /\ bm.pc = "called"
    /\ IF InvalidArgs(bm.args)
       THEN bm' = [bm EXCEPT !.pc = "raised", !.error = "ValueError",
                             !.cnn_act = IF /\ bm.args.cnn_channels_multiplier > 0
                                            /\ bm.args.dense_units > 0
                                            /\ bm.args.cnn_act \in NnAttributes
                                         THEN bm.args.cnn_act ELSE "unbound"]
       ELSE bm' = [bm EXCEPT !.pc = "validated", !.cnn_act = bm.args.cnn_act,
                             !.dense_act = bm.args.dense_act]
    /\ UNCHANGED <<lv, th, sac, rssm, player, actor, shp, dst, ckpt, obt, tst>>

\* lines 862-981
BuildWorldModel ==
    /\ bm.pc = "validated"
    /\ bm' = [bm EXCEPT !.pc = "world_model", !.built = WorldModelParts(bm.args.keys)]
    /\ UNCHANGED <<lv, th, sac, rssm, player, actor, shp, dst, ckpt, obt, tst>>

\* lines 982-1007: Actor.__init__ rejects some distributions
BuildActor ==
    /\ bm.pc = "world_model"
    /\ IF Rejected(StrLower(bm.args.actor_distribution), bm.args.is_continuous)
       THEN bm' = [bm EXCEPT !.pc = "raised", !.error = "ValueError"]
       ELSE bm' = [bm EXCEPT !.pc = "actor",
                     !.built = Append(@, IF bm.args.minedojo THEN "MinedojoActor" ELSE "Actor")]
    /\ UNCHANGED <<lv, th, sac, rssm, player, actor, shp, dst, ckpt, obt, tst>>

\* lines 1008-1059
BuildCritics ==
    /\ bm.pc = "actor"
    /\ bm' = [bm EXCEPT !.pc = "returned", !.built = @ \o <<"critic", "target_critic">>]
    /\ UNCHANGED <<lv, th, sac, rssm, player, actor, shp, dst, ckpt, obt, tst>>

BuildNext == BuildValidate \/ BuildWorldModel \/ BuildActor \/ BuildCritics

InitBuild ==
    /\ BuildInit
    /\ lv = Idle /\ th = Idle /\ sac = Idle /\ rssm = Idle /\ player = Idle
    /\ actor = Idle /\ shp = Idle
    /\ dst = Idle /\ ckpt = Idle /\ obt = Idle /\ tst = Idle

SpecBuild == InitBuild /\ [][BuildNext]_vars

(***************************************************************************)
(* The shapes of the tensors in a rollout of RSSM.dynamic and              *)
(* RSSM.imagination.  A shape is a sequence of sizes; ShapeErr stands for  *)
(* the RuntimeError torch raises when shapes do not fit.                   *)
(***************************************************************************)
\* the sizes of the scenario: args.stochastic_size, args.discrete_size,
\* args.recurrent_state_size, the action heads, and the embedding size
ShapeCfg == [stochastic_size |-> 4, discrete_size |-> 4, recurrent_state_size |-> 8,
             actions_dim |-> <<3, 2>>, embedded |-> 6, dense_units |-> 2]
FlatStochastic == ShapeCfg.stochastic_size * ShapeCfg.discrete_size
ShapeBatches == {1, 2, 3}
\* the dimensions in front of the batch: none, or a sequence dimension of 1
ShapeLeads == {<<>>, <<1>>}
MaxDynamic == 5
MaxImagination == 3

ShapeErr == <<0>>
ShapeFront(s) == SubSeq(s, 1, Len(s) - 1)
ShapeLast(s) == s[Len(s)]
RECURSIVE Numel(_)
Numel(s) == IF s = <<>> THEN 1 ELSE s[1] * Numel(Tail(s))

\* broadcasting of an elementwise operation: sizes are aligned from the right
DimFromRight(s, i) == IF i <= Len(s) THEN s[Len(s) + 1 - i] ELSE 1
Broadcast(a, b) ==
    IF a = ShapeErr \/ b = ShapeErr THEN ShapeErr
    ELSE LET n == IF Len(a) > Len(b) THEN Len(a) ELSE Len(b)
         IN  IF \E i \in 1..n : /\ DimFromRight(a, i) # DimFromRight(b, i)
                                /\ DimFromRight(a, i) # 1
                                /\ DimFromRight(b, i) # 1
             THEN ShapeErr
             ELSE [j \in 1..n |->
                     LET i == n + 1 - j
                     IN  IF DimFromRight(a, i) = 1 THEN DimFromRight(b, i)
                         ELSE DimFromRight(a, i)]

\* x.view(*x.shape[:-2], -1)
MergeLastTwo(s) ==
    IF s = ShapeErr \/ Len(s) < 2 THEN ShapeErr
    ELSE SubSeq(s, 1, Len(s) - 2) \o <<s[Len(s) - 1] * s[Len(s)]>>

\* x.view(*x.shape[:-1], -1, discrete)
SplitLast(s, discrete) ==
    IF s = ShapeErr \/ ShapeLast(s) % discrete # 0 THEN ShapeErr
    ELSE ShapeFront(s) \o <<ShapeLast(s) \div discrete, discrete>>

\* a.view_as(b)
ViewAs(a, b) ==
    IF a = ShapeErr \/ b = ShapeErr \/ Numel(a) # Numel(b) THEN ShapeErr ELSE b

\* torch.cat((a, b), -1)
CatLast(a, b) ==
    IF a = ShapeErr \/ b = ShapeErr \/ Len(a) # Len(b) THEN ShapeErr
    ELSE IF ShapeFront(a) # ShapeFront(b) THEN ShapeErr
    ELSE ShapeFront(a) \o <<ShapeLast(a) + ShapeLast(b)>>

\* a dense network from in_features to out_features
Dense(in_features, out_features, s) ==
    IF s = ShapeErr \/ ShapeLast(s) # in_features THEN ShapeErr
    ELSE ShapeFront(s) \o <<out_features>>

\* RSSM._uniform_mix, lines 384-396
UniformMixShape(s) ==
    IF s = ShapeErr THEN ShapeErr
    ELSE IF Len(s) = 3 THEN MergeLastTwo(SplitLast(s, ShapeCfg.discrete_size))
    ELSE IF Len(s) # 4 THEN ShapeErr
    ELSE MergeLastTwo(s)

\* compute_stochastic_state, utils.py lines 35-38
StochasticStateShapeFlat(logits) == logits
StochasticStateShape(logits) == SplitLast(logits, ShapeCfg.discrete_size)

\* RSSM._transition, lines 424-427
TransitionShape(recurrent_out) ==
    StochasticStateShape(
        UniformMixShape(Dense(ShapeCfg.recurrent_state_size, FlatStochastic, recurrent_out)))

\* RSSM._representation, lines 409-412
RepresentationShape(recurrent_state, embedded_obs) ==
    StochasticStateShape(
        UniformMixShape(Dense(ShapeCfg.recurrent_state_size + ShapeCfg.embedded,
                              FlatStochastic, CatLast(recurrent_state, embedded_obs))))

\* RecurrentModel.forward, lines 303-306: the GRU cell gives a state shaped
\* like the one it was given
RecurrentShape(input, recurrent_state) ==
    LET feat == Dense(FlatStochastic + Sum(ShapeCfg.actions_dim), ShapeCfg.dense_units, input)
    IN  IF feat = ShapeErr \/ recurrent_state = ShapeErr THEN ShapeErr
        ELSE IF ShapeFront(feat) # ShapeFront(recurrent_state) THEN ShapeErr
        ELSE IF ShapeLast(recurrent_state) # ShapeCfg.recurrent_state_size THEN ShapeErr
        ELSE recurrent_state

\* RSSM.dynamic, lines 373-382: the shapes of (recurrent_state, posterior, prior)
DynamicShapes(posterior, recurrent_state, action, embedded_obs, is_first) ==
    LET action1 == Broadcast(is_first, action)
        recurrent1 == Broadcast(Broadcast(is_first, recurrent_state),
                                Broadcast(is_first, recurrent_state))
        posterior1 == MergeLastTwo(posterior)
        initial == ViewAs(TransitionShape(recurrent1), posterior1)
        posterior2 == Broadcast(Broadcast(is_first, posterior1),
                                Broadcast(is_first, initial))
        recurrent2 == RecurrentShape(CatLast(posterior2, action1), recurrent1)
    IN  [recurrent_state |-> recurrent2,
         posterior |-> RepresentationShape(recurrent2, embedded_obs),
         prior |-> TransitionShape(recurrent2)]

\* RSSM.imagination, lines 440-445: the shapes of (imagined_prior, recurrent_state)
ImaginationShapes(prior, recurrent_state, actions) ==
    LET recurrent1 == RecurrentShape(CatLast(prior, actions), recurrent_state)
    IN  [imagined_prior |-> TransitionShape(recurrent1), recurrent_state |-> recurrent1]

\* the caller's reshape of a stochastic state to (..., stochastic_size * discrete_size)
Flattened(lead, batch) == lead \o <<batch, FlatStochastic>>
Grouped(lead, batch) ==
    lead \o <<batch, ShapeCfg.stochastic_size, ShapeCfg.discrete_size>>

ShapesInit ==
    \E batch \in ShapeBatches, lead \in ShapeLeads :
    \E stochastic \in {Flattened(lead, batch), Grouped(lead, batch)} :
        shp = [pc |-> "ready", batch |-> batch, lead |-> lead,
               stochastic |-> stochastic,
               recurrent |-> lead \o <<batch, ShapeCfg.recurrent_state_size>>,
               dynamics |-> 0, imaginations |-> 0,
               direct |-> TRUE, fitted |-> stochastic = Grouped(lead, batch),
               error |-> "none"]

\* one call of dynamic with the states the caller holds; the caller hands
\* the stochastic state over as it is or reshaped flat
ShapeDynamic ==
    /\ shp.pc = "ready"
    /\ shp.dynamics < MaxDynamic
    /\ \E flatten \in BOOLEAN :
       LET res == DynamicShapes(
                      IF flatten THEN Flattened(shp.lead, shp.batch) ELSE shp.stochastic,
                      shp.recurrent,
                      shp.lead \o <<shp.batch, Sum(ShapeCfg.actions_dim)>>,
                      shp.lead \o <<shp.batch, ShapeCfg.embedded>>,
                      shp.lead \o <<shp.batch, 1>>)
           failed == ShapeErr \in {res.recurrent_state, res.posterior, res.prior}
       IN  shp' = [shp EXCEPT
              !.pc = IF failed THEN "failed" ELSE "ready",
              !.error = IF failed THEN "RuntimeError" ELSE "none",
              !.stochastic = IF failed THEN @ ELSE res.posterior,
              !.recurrent = IF failed THEN @ ELSE res.recurrent_state,
              !.dynamics = @ + 1,
              !.direct = @ /\ ~flatten,
              !.fitted = @ /\ ~flatten]
    /\ UNCHANGED <<lv, th, sac, rssm, player, actor, bm, dst, ckpt, obt, tst>>

\* one call of imagination with the states the caller holds
ShapeImagination ==
    /\ shp.pc = "ready"
    /\ shp.imaginations < MaxImagination
    /\ \E flatten \in BOOLEAN :
       LET res == ImaginationShapes(
                      IF flatten THEN Flattened(shp.lead, shp.batch) ELSE shp.stochastic,
                      shp.recurrent,
                      shp.lead \o <<shp.batch, Sum(ShapeCfg.actions_dim)>>)
           failed == ShapeErr \in {res.imagined_prior, res.recurrent_state}
       IN  shp' = [shp EXCEPT
              !.pc = IF failed THEN "failed" ELSE "ready",
              !.error = IF failed THEN "RuntimeError" ELSE "none",
              !.stochastic = IF failed THEN @ ELSE res.imagined_prior,
              !.recurrent = IF failed THEN @ ELSE res.recurrent_state,
              !.imaginations = @ + 1,
              !.direct = @ /\ ~flatten,
              !.fitted = @ /\ flatten]
    /\ UNCHANGED <<lv, th, sac, rssm, player, actor, bm, dst, ckpt, obt, tst>>

ShapesNext == ShapeDynamic \/ ShapeImagination

InitShapes ==
    /\ ShapesInit
    /\ lv = Idle /\ th = Idle /\ sac = Idle /\ rssm = Idle /\ player = Idle
    /\ actor = Idle /\ bm = Idle
    /\ dst = Idle /\ ckpt = Idle /\ obt = Idle /\ tst = Idle

SpecShapes == InitShapes /\ [][ShapesNext]_vars

(***************************************************************************)
(* The latent state wherever it is produced: the behaviours of the player  *)
(* together with the behaviours of the RSSM.                               *)
(***************************************************************************)
InitLatent == InitPlayer \/ InitRssm

LatentNext ==
    \/ (rssm.pc = "idle" /\ PlayerNext)
    \/ (rssm.pc # "idle" /\ RssmNext)

SpecLatent == InitLatent /\ [][LatentNext]_vars

(***************************************************************************)
(* SymlogDistribution and MSEDistribution (utils/distribution.py).  A      *)
(* tensor has two dimensions and is the sequence of its rows.  The mode    *)
(* holds integers.  A value handed to SymlogDistribution.log_prob is one   *)
(* of the reals sign * (e^k - 1), written [sign |-> s, log1p |-> k], for   *)
(* which symlog is exact; a value handed to MSEDistribution is an integer. *)
(***************************************************************************)
DistClasses == {"SymlogDistribution", "MSEDistribution"}
TensorShapes == {<<1, 2>>, <<2, 1>>, <<2, 2>>}
TensorsOf(shape, vals) == [1..shape[1] -> [1..shape[2] -> vals]]
TensorShape(t) == <<Len(t), Len(t[1])>>
ModeVals == {0, 1}
MseVals == {0, 2}
SymlogVals == {[sign |-> 1, log1p |-> 0], [sign |-> -1, log1p |-> 1]}
DimsArgs == {1, 2}
DistNameArgs == {"mse", "abs", "huber"}
AggArgs == {"sum", "mean", "max"}
\* tol: the default 1e-8 and a coarse tolerance
TolArgs == {<<1, 100000000>>, <<2, 1>>}

\* symlog(x) = sign(x) * ln(1 + |x|)
Symlog(x) == x.sign * x.log1p

\* torch.where(distance < tol, 0, distance) for an integer distance
Tolerated(distance, tol) == IF distance * tol[2] < tol[1] THEN 0 ELSE distance

\* SymlogDistribution.log_prob, lines 175-180: the distance of one element
SymlogDistance(dist, tol, mode, value) ==
    IF dist = "mse" THEN Tolerated((mode - Symlog(value)) * (mode - Symlog(value)), tol)
    ELSE Tolerated(Abs(mode - Symlog(value)), tol)

\* MSEDistribution.log_prob, line 210
MseDistance(mode, value) == (mode - value) * (mode - value)

\* distance.sum(self._dims) / distance.mean(self._dims), self._dims the last
\* `dims` dimensions: one entry per row, or one entry for the whole tensor
RowTotal(row) == Sum(row)
LossOverAll(agg, dims, distance) ==
    LET total == Sum([r \in 1..Len(distance) |-> RowTotal(distance[r])])
        count == Len(distance) * Len(distance[1])
    IN  <<IF agg = "sum" THEN QInt(total) ELSE Q(total, count)>>
Loss(agg, dims, distance) ==
    IF dims = 1
    THEN [r \in 1..Len(distance) |->
            IF agg = "sum" THEN QInt(RowTotal(distance[r]))
            ELSE Q(RowTotal(distance[r]), Len(distance[r]))]
    ELSE LET total == Sum([r \in 1..Len(distance) |-> RowTotal(distance[r])])
             count == Len(distance) * Len(distance[1])
         IN  <<IF agg = "sum" THEN QInt(total) ELSE Q(total, count)>>

QNeg(a) == <<-a[1], a[2]>>

DistInit ==
    \E cls \in DistClasses, shape \in TensorShapes, dims \in DimsArgs, agg \in AggArgs :
    \E mode \in TensorsOf(shape, ModeVals) :
    \E dist \in IF cls = "SymlogDistribution" THEN DistNameArgs ELSE {"mse"} :
    \E tol \in IF cls = "SymlogDistribution" THEN TolArgs ELSE {<<0, 1>>} :
        dst = [pc |-> "built", cls |-> cls, mode |-> mode, dims |-> dims,
               dist |-> dist, agg |-> agg, tol |-> tol,
               value |-> Nil, result |-> Nil, error |-> "none"]

\* SymlogDistribution.log_prob, lines 173-189; MSEDistribution.log_prob, 208-217
DistLogProb ==
    /\ dst.pc = "built"
    /\ \E shape \in TensorShapes :
       \E value \in TensorsOf(shape, IF dst.cls = "SymlogDistribution"
                                     THEN SymlogVals ELSE MseVals) :
          IF TensorShape(dst.mode) # shape
          THEN dst' = [dst EXCEPT !.pc = "raised", !.value = value,
                                  !.error = "AssertionError"]
          ELSE IF dst.cls = "SymlogDistribution" /\ dst.dist \notin {"mse", "abs"}
          THEN dst' = [dst EXCEPT !.pc = "raised", !.value = value,
                                  !.error = "NotImplementedError"]
          ELSE IF dst.agg \notin {"mean", "sum"}
          THEN dst' = [dst EXCEPT !.pc = "raised", !.value = value,
                                  !.error = "NotImplementedError"]
          ELSE LET distance ==
                     [r \in 1..shape[1] |-> [c \in 1..shape[2] |->
                        IF dst.cls = "SymlogDistribution"
                        THEN SymlogDistance(dst.dist, dst.tol, dst.mode[r][c], value[r][c])
                        ELSE MseDistance(dst.mode[r][c], value[r][c])]]
                   loss == Loss(dst.agg, dst.dims, distance)
               IN  dst' = [dst EXCEPT !.pc = "returned", !.value = value,
                                      !.result = [i \in 1..Len(loss) |-> QNeg(loss[i])]]
    /\ UNCHANGED <<lv, th, sac, rssm, player, actor, bm, shp, ckpt, obt, tst>>

\* the distribution is used again
DistAgain ==
    /\ dst.pc \in {"returned", "raised"}
    /\ dst' = [dst EXCEPT !.pc = "built", !.value = Nil, !.result = Nil, !.error = "none"]
    /\ UNCHANGED <<lv, th, sac, rssm, player, actor, bm, shp, ckpt, obt, tst>>

DistNext == DistLogProb \/ DistAgain

InitDist ==
    /\ DistInit
    /\ lv = Idle /\ th = Idle /\ sac = Idle /\ rssm = Idle /\ player = Idle
    /\ actor = Idle /\ bm = Idle /\ shp = Idle
    /\ ckpt = Idle /\ obt = Idle /\ tst = Idle

SpecDist == InitDist /\ [][DistNext]_vars

(***************************************************************************)
(* The DreamerV3 checkpoint (tests/test_algos/test_algos.py).  The run     *)
(* itself is sheeprl.algos.dreamer_v3.dreamer_v3.main: it always saves the *)
(* models and their optimizers, and what else it saves is open; the test   *)
(* decides whether the checkpoint it wrote is the expected one.            *)
(***************************************************************************)
EnvIds == {"discrete_dummy", "multidiscrete_dummy", "continuous_dummy"}
ModelKeys == {"world_model", "actor", "critic", "target_critic",
              "world_optimizer", "actor_optimizer", "critic_optimizer"}
RunKeys == {"expl_decay_steps", "args", "global_step", "batch_size", "moments"}
BufferKey == "rb"

\* test_dreamer_v3, lines 570-586: the keys the test expects
TargetKeys(checkpoint_buffer) ==
    ModelKeys \cup RunKeys \cup (IF checkpoint_buffer THEN {BufferKey} ELSE {})

\* check_checkpoint, line 50
KeysMatchSubset(ckpt_keys, target_keys) ==
    Cardinality(ckpt_keys \cap target_keys) = Cardinality(ckpt_keys)
KeysMatch(ckpt_keys, target_keys) ==
    /\ Cardinality(ckpt_keys \cap target_keys) = Cardinality(ckpt_keys)
    /\ Cardinality(ckpt_keys) = Cardinality(target_keys)

\* the checkpoints a run may have written
WrittenKeys == {ModelKeys \cup s : s \in SUBSET (RunKeys \cup {BufferKey})}

CkptInit ==
    \E env_id \in EnvIds, checkpoint_buffer \in BOOLEAN :
        ckpt = [pc |-> "start", env_id |-> env_id,
                checkpoint_buffer |-> checkpoint_buffer,
                isdir |-> FALSE, state |-> {}, args_json |-> FALSE,
                failed |-> "none"]

\* task.main() under the test's arguments
CkptRun ==
    /\ ckpt.pc = "start"
    /\ \/ ckpt' = [ckpt EXCEPT !.pc = "ran"]
       \/ \E keys \in WrittenKeys, args_json \in BOOLEAN :
            ckpt' = [ckpt EXCEPT !.pc = "ran", !.isdir = TRUE, !.state = keys,
                                 !.args_json = args_json]
    /\ UNCHANGED <<lv, th, sac, rssm, player, actor, bm, shp, dst, obt, tst>>

\* check_checkpoint(ckpt_path, keys, checkpoint_buffer)
CheckCheckpoint ==
    /\ ckpt.pc = "ran"
    /\ LET target_keys == TargetKeys(ckpt.checkpoint_buffer)
       IN  IF ~ckpt.isdir
           THEN ckpt' = [ckpt EXCEPT !.pc = "failed", !.failed = "isdir"]
           ELSE IF ~KeysMatch(ckpt.state, target_keys)
           THEN ckpt' = [ckpt EXCEPT !.pc = "failed", !.failed = "keys"]
           ELSE IF ~(ckpt.checkpoint_buffer \/ BufferKey \notin ckpt.state)
           THEN ckpt' = [ckpt EXCEPT !.pc = "failed", !.failed = "rb"]
           ELSE IF ~ckpt.args_json
           THEN ckpt' = [ckpt EXCEPT !.pc = "failed", !.failed = "args.json"]
           ELSE ckpt' = [ckpt EXCEPT !.pc = "passed"]
    /\ UNCHANGED <<lv, th, sac, rssm, player, actor, bm, shp, dst, obt, tst>>

CkptNext == CkptRun \/ CheckCheckpoint

InitCkpt ==
    /\ CkptInit
    /\ lv = Idle /\ th = Idle /\ sac = Idle /\ rssm = Idle /\ player = Idle
    /\ actor = Idle /\ bm = Idle /\ shp = Idle
    /\ dst = Idle /\ obt = Idle /\ tst = Idle

SpecCkpt == InitCkpt /\ [][CkptNext]_vars

(***************************************************************************)
(* CustomObtain.determine_success_from_rewards (envs/minerl_envs/obtain.py) *)
(***************************************************************************)
ObtainClasses == {"CustomObtainDiamond", "CustomObtainIronPickaxe"}

Entry(type, reward) == [type |-> type, amount |-> 1, reward |-> reward]

\* CustomObtainIronPickaxe.__init__, lines 245-257
IronPickaxeSchedule ==
    <<Entry("log", 1), Entry("planks", 2), Entry("stick", 4),
      Entry("crafting_table", 4), Entry("wooden_pickaxe", 8),
      Entry("cobblestone", 16), Entry("furnace", 32), Entry("stone_pickaxe", 32),
      Entry("iron_ore", 64), Entry("iron_ingot", 128), Entry("iron_pickaxe", 256)>>

\* CustomObtainDiamond.__init__, lines 169-182
DiamondSchedule == Append(IronPickaxeSchedule, Entry("diamond", 1024))

RewardSchedule(cls) ==
    IF cls = "CustomObtainDiamond" THEN DiamondSchedule ELSE IronPickaxeSchedule

\* allow_missing_ratio = 0.1
AllowMissingRatio == <<1, 10>>

\* Python's round: to the nearest integer, a tie to the even one
Round(q) ==
    LET floor == q[1] \div q[2]
        twice == 2 * (q[1] - floor * q[2])
    IN  IF twice < q[2] THEN floor
        ELSE IF twice > q[2] THEN floor + 1
        ELSE IF floor % 2 = 0 THEN floor ELSE floor + 1

\* set(a list)
ListSet(list) == {list[i] : i \in 1..Len(list)}

\* lines 153-160
DetermineSuccess(reward_schedule, rewards) ==
    LET max_missing == Round(QMul(QInt(Len(reward_schedule)), AllowMissingRatio))
        reward_values == [i \in 1..Len(reward_schedule) |-> reward_schedule[i].reward]
    IN  Cardinality(ListSet(rewards) \cap ListSet(reward_values))
            >= Len(reward_values) - max_missing

\* the rewards an episode can have collected: rewards of the schedule and
\* the reward 0 of a step that obtains nothing
EpisodeRewardVals == {0, 1, 2, 4, 8, 16, 32, 64, 128, 256, 1024}

RECURSIVE Ascending(_)
Ascending(set) ==
    IF set = {} THEN <<>>
    ELSE LET least == CHOOSE x \in set : \A y \in set : x <= y
         IN  <<least>> \o Ascending(set \ {least})

\* reward lists: the rewards in the order the schedule is climbed, the last
\* one possibly collected twice
RewardLists ==
    {Ascending(set) : set \in SUBSET EpisodeRewardVals}
    \cup {Ascending(set) \o <<CHOOSE x \in set : \A y \in set : x >= y>> :
            set \in (SUBSET EpisodeRewardVals) \ {{}}}

ObtainInit ==
    \E cls \in ObtainClasses :
        obt = [pc |-> "built", cls |-> cls, reward_schedule |-> RewardSchedule(cls),
               rewards |-> Nil, result |-> FALSE]

ObtainDetermineSuccess ==
    /\ obt.pc = "built"
    /\ \E rewards \in RewardLists :
         obt' = [obt EXCEPT !.pc = "returned", !.rewards = rewards,
                            !.result = DetermineSuccess(obt.reward_schedule, rewards)]
    /\ UNCHANGED <<lv, th, sac, rssm, player, actor, bm, shp, dst, ckpt, tst>>

\* the next episode
ObtainAgain ==
    /\ obt.pc = "returned"
    /\ obt' = [obt EXCEPT !.pc = "built", !.rewards = Nil, !.result = FALSE]
    /\ UNCHANGED <<lv, th, sac, rssm, player, actor, bm, shp, dst, ckpt, tst>>

ObtainNext == ObtainDetermineSuccess \/ ObtainAgain

InitObtain ==
    /\ ObtainInit
    /\ lv = Idle /\ th = Idle /\ sac = Idle /\ rssm = Idle /\ player = Idle
    /\ actor = Idle /\ bm = Idle /\ shp = Idle
    /\ dst = Idle /\ ckpt = Idle /\ tst = Idle

SpecObtain == InitObtain /\ [][ObtainNext]_vars

(***************************************************************************)
(* RSSM._uniform_mix on a whole tensor: its shape and its elements in      *)
(* row-major order (exp(logit), as above).  The last dimension of a 4-D    *)
(* tensor is self.discrete, as everywhere in the RSSM.                     *)
(***************************************************************************)
MixBatches == {1, 2}
MixVars == {1, 2}
MixUnimixArgs == {<<-1, 2>>, Zero, Q(1, 2)}
MixVals == {QInt(1), QInt(2)}

\* logits of 1 to 5 dimensions
MixShapes ==
    UNION {{<<n * Discrete>>, <<b, n * Discrete>>, <<1, b, n * Discrete>>,
            <<1, b, n, Discrete>>, <<1, 1, b, n, Discrete>>} :
           b \in MixBatches, n \in MixVars}

MixTensors ==
    UNION {{[shape |-> shape, data |-> data] : data \in [1..Numel(shape) -> MixVals]} :
           shape \in MixShapes}

\* lines 385-389
UniformMixView(shape) ==
    IF Len(shape) = 3 THEN ShapeFront(shape) \o <<ShapeLast(shape) \div Discrete, Discrete>>
    ELSE IF Len(shape) # 4 THEN ShapeErr
    ELSE shape

\* lines 384-396
UniformMixTensorUnflattened(unimix, logits) ==
    LET viewed == UniformMixView(logits.shape)
    IN  IF viewed = ShapeErr THEN [shape |-> ShapeErr, data |-> Nil]
        ELSE [shape |-> viewed, data |-> UniformMix(unimix, logits.data)]
UniformMixTensor(unimix, logits) ==
    LET viewed == UniformMixView(logits.shape)
    IN  IF viewed = ShapeErr THEN [shape |-> ShapeErr, data |-> Nil]
        ELSE [shape |-> MergeLastTwo(viewed), data |-> UniformMix(unimix, logits.data)]

MixInit ==
    \E unimix \in MixUnimixArgs, logits \in MixTensors :
        shp = [pc |-> "call", unimix |-> unimix, logits |-> logits,
               result |-> Nil, error |-> "none"]

\* a call of self._uniform_mix(logits)
UniformMixCall ==
    /\ shp.pc = "call"
    /\ LET out == UniformMixTensor(shp.unimix, shp.logits)
       IN  IF out.shape = ShapeErr
           THEN shp' = [shp EXCEPT !.pc = "raised", !.error = "RuntimeError"]
           ELSE shp' = [shp EXCEPT !.pc = "returned", !.result = out]
    /\ UNCHANGED <<lv, th, sac, rssm, player, actor, bm, dst, ckpt, obt, tst>>

MixNext == UniformMixCall

InitMix ==
    /\ MixInit
    /\ lv = Idle /\ th = Idle /\ sac = Idle /\ rssm = Idle /\ player = Idle
    /\ actor = Idle /\ bm = Idle
    /\ dst = Idle /\ ckpt = Idle /\ obt = Idle /\ tst = Idle

SpecMix == InitMix /\ [][MixNext]_vars

(***************************************************************************)
(* test() (dreamer_v2/utils.py): one episode with the frozen player.       *)
(* tst.pc is the position in the function, tst.trace the calls made so far *)
(* on the player and the environment, tst.steps what each env.step gave.   *)
(* The environment ends an episode after MaxEpisodeSteps steps at most.    *)
(***************************************************************************)
MaxEpisodeSteps == 3
TestNumEnvs == {1, 2, 4}
TestRewards == {0, 1}

\* line 135: done = done or truncated or args.dry_run
LoopDoneIgnoresDryRun(done, truncated, dry_run) == done \/ truncated
LoopDone(done, truncated, dry_run) == done \/ truncated \/ dry_run

TestInit ==
    \E dry_run \in BOOLEAN, sample_actions \in BOOLEAN, num_envs \in TestNumEnvs :
        tst = [pc |-> "call", dry_run |-> dry_run, sample_actions |-> sample_actions,
               num_envs |-> num_envs, initialised |-> FALSE, env |-> "none",
               done |-> FALSE, cumulative_rew |-> 0, trace |-> <<>>, steps |-> <<>>]

\* lines 104-112: the environment is made and reset
TestReset ==
    /\ tst.pc = "call"
    /\ tst' = [tst EXCEPT !.pc = "reset", !.env = "open", !.done = FALSE,
                          !.cumulative_rew = 0,
                          !.trace = Append(tst.trace, "env.reset")]
    /\ UNCHANGED <<lv, th, sac, rssm, player, actor, bm, shp, dst, ckpt, obt>>

\* lines 113-114: player.num_envs = 1; player.init_states()
TestInitStates ==
    /\ tst.pc = "reset"
    /\ tst' = [tst EXCEPT !.pc = "loop", !.num_envs = 1, !.initialised = TRUE,
                          !.trace = Append(tst.trace, "init_states")]
    /\ UNCHANGED <<lv, th, sac, rssm, player, actor, bm, shp, dst, ckpt, obt>>

\* lines 115-128: `while not done`, the observation is preprocessed and
\* player.get_greedy_action(preprocessed_obs, sample_actions, mask) is called
TestGreedyAction ==
    /\ tst.pc = "loop"
    /\ ~tst.done
    /\ Len(tst.steps) < MaxEpisodeSteps
    /\ tst' = [tst EXCEPT !.pc = "act",
                          !.trace = Append(tst.trace, "get_greedy_action")]
    /\ UNCHANGED <<lv, th, sac, rssm, player, actor, bm, shp, dst, ckpt, obt>>

\* lines 131-136: env.step, done = done or truncated or args.dry_run
TestEnvStep ==
    /\ tst.pc = "act"
    /\ \E done \in BOOLEAN, truncated \in BOOLEAN, reward \in TestRewards :
          /\ (Len(tst.steps) + 1 = MaxEpisodeSteps) => (done \/ truncated)
          /\ tst' = [tst EXCEPT
                        !.pc = "loop",
                        !.done = LoopDone(done, truncated, tst.dry_run),
                        !.cumulative_rew = tst.cumulative_rew + reward,
                        !.trace = Append(tst.trace, "env.step"),
                        !.steps = Append(tst.steps,
                                         [done |-> done, truncated |-> truncated])]
    /\ UNCHANGED <<lv, th, sac, rssm, player, actor, bm, shp, dst, ckpt, obt>>

\* lines 137-140: the loop is left, the reward is logged, env.close()
TestClose ==
    /\ tst.pc = "loop"
    /\ tst.done
    /\ tst' = [tst EXCEPT !.pc = "closed", !.env = "closed",
                          !.trace = Append(tst.trace, "env.close")]
    /\ UNCHANGED <<lv, th, sac, rssm, player, actor, bm, shp, dst, ckpt, obt>>

TestNext == TestReset \/ TestInitStates \/ TestGreedyAction \/ TestEnvStep \/ TestClose

InitTest ==
    /\ TestInit
    /\ lv = Idle /\ th = Idle /\ sac = Idle /\ rssm = Idle /\ player = Idle
    /\ actor = Idle /\ bm = Idle /\ shp = Idle
    /\ dst = Idle /\ ckpt = Idle /\ obt = Idle

\* test() is straight-line code: it keeps running until it returns
SpecTest == InitTest /\ [][TestNext]_vars /\ WF_vars(TestNext)

(***************************************************************************)
(* Claims about compute_lambda_values.                                     *)
(***************************************************************************)
LvT == Len(lv.rewards)
LvGivenBootstrap == IF lv.bootstrap = None THEN Zero ELSE lv.bootstrap

\* C3: with horizon H equal to the number of timesteps the result obeys the
\* backward recursion result[H-1] = rewards[H-1] + continues[H-1]*bootstrap,
\* result[t] = rewards[t] + continues[t]*((1-lmbda)*values[t+1] +
\* lmbda*result[t+1]) for t < H-1; the loop walks the timesteps in strict
\* reverse order carrying the running return (after the iteration of timestep
\* i the accumulator is the return of timestep i and the list holds the
\* returns of timesteps H-1 down to i), and an omitted bootstrap counts as zero.
C3_LambdaRecursion ==
    /\ (lv.pc = "loop" /\ lv.horizon = LvT) =>
          /\ Len(lv.lv) = lv.horizon - 1 - lv.i
          /\ lv.lv # <<>> => lv.agg = lv.lv[Len(lv.lv)]
          /\ lv.lv = <<>> => lv.agg = LvGivenBootstrap
    /\ (lv.pc = "returned" /\ lv.horizon = LvT) =>
          /\ Len(lv.result) = LvT
          /\ lv.result[LvT] =
                QAdd(lv.rewards[LvT], QMul(lv.continues[LvT], LvGivenBootstrap))
          /\ \A t \in 1..(LvT - 1) :
                lv.result[t] =
                    QAdd(lv.rewards[t],
                         QMul(lv.continues[t],
                              QAdd(QMul(QSub(One, lv.lmbda), lv.values[t + 1]),
                                   QMul(lv.lmbda, lv.result[t + 1]))))

C3_Witness ==
    /\ lv.pc = "returned"
    /\ lv.horizon = LvT
    /\ LvT = 2
    /\ lv.lmbda = Q(1, 2)
    /\ lv.continues = <<Q(1, 2), QInt(1)>>
    /\ lv.values[2] = QInt(2)
    /\ lv.bootstrap = QInt(3)
    /\ lv.rewards = <<QInt(1), QInt(0)>>
    /\ lv.result = <<Q(9, 4), QInt(3)>>

\* C4: for a one-step horizon over one timestep the result is exactly
\* rewards[0] + continues[0]*bootstrap, whatever lmbda and values[0] are.
C4_OneStepHorizon ==
    (lv.pc = "returned" /\ lv.horizon = 1 /\ LvT = 1) =>
        lv.result = <<QAdd(lv.rewards[1], QMul(lv.continues[1], LvGivenBootstrap))>>

C4_Witness ==
    /\ lv.pc = "returned"
    /\ lv.horizon = 1
    /\ LvT = 1
    /\ lv.lmbda = Q(1, 2)
    /\ lv.values[1] = QInt(2)
    /\ lv.continues[1] = QInt(1)
    /\ lv.bootstrap = QInt(3)
    /\ lv.result = <<QAdd(lv.rewards[1], QInt(3))>>

(***************************************************************************)
(* Claims about the two-hot target.                                        *)
(***************************************************************************)
ThN == Len(th.bins)

\* C5: a transformed target equal to a bin value, the first and the last bin
\* included, gives weight 1 on that bin and 0 elsewhere; a target below low
\* gives weight 1 on the first bin, a target above high on the last bin.
C5_TwoHotDegenerate ==
    th.pc = "returned" =>
        /\ \A j \in 1..ThN : th.x = th.bins[j] => th.target = OneHot(j - 1, ThN)
        /\ QLt(th.x, QInt(th.low)) => th.target = OneHot(0, ThN)
        /\ QLt(QInt(th.high), th.x) => th.target = OneHot(ThN - 1, ThN)

C5_Witness ==
    /\ th.pc = "returned"
    /\ ThN = 3
    /\ th.x = th.bins[2]
    /\ th.target = <<Zero, One, Zero>>

\* C6: the two-hot target has non-negative weights that sum to 1, is non-zero
\* on at most the two adjacent bins below and above the target, with weights
\* inversely proportional to the distance to each of the two (so the weighted
\* sum of the bin values is the target clamped to [low, high]); when the two
\* indices coincide both halves land on that single bin.
ThClamped ==
    IF QLt(th.x, QInt(th.low)) THEN QInt(th.low)
    ELSE IF QLt(QInt(th.high), th.x) THEN QInt(th.high) ELSE th.x

C6_TwoHotWeights ==
    th.pc = "returned" =>
        /\ \A i \in 1..ThN : QLe(Zero, th.target[i])
        /\ QSum(th.target) = One
        /\ th.above - th.below \in {0, 1}
        /\ \A i \in 1..ThN : th.target[i] # Zero => i \in {th.below + 1, th.above + 1}
        /\ th.below # th.above =>
              /\ th.target[th.below + 1] = th.weights.below
              /\ th.target[th.above + 1] = th.weights.above
              /\ QMul(th.weights.below, QAbs(QSub(th.x, th.bins[th.below + 1])))
                    = QMul(th.weights.above, QAbs(QSub(th.bins[th.above + 1], th.x)))
        /\ QSum([i \in 1..ThN |-> QMul(th.target[i], th.bins[i])]) = ThClamped
        /\ th.below = th.above =>
              /\ th.weights = [below |-> Q(1, 2), above |-> Q(1, 2)]
              /\ th.target[th.below + 1] = One

C6_Witness ==
    /\ th.pc = "returned"
    /\ th.below = 0
    /\ th.above = 1
    /\ th.weights = [below |-> Q(2, 3), above |-> Q(1, 3)]
    /\ th.target[1] = Q(2, 3)
    /\ th.target[2] = Q(1, 3)

(***************************************************************************)
(* Claims about the target-critic EMA.                                     *)
(***************************************************************************)
\* C7: when qfs_target_ema has returned, every target parameter is
\* tau*online + (1-tau)*previous_target of the online parameter at the same
\* position; with tau = 1 the target equals the online parameters, with
\* tau = 0 it is unchanged.
C7_EmaUpdate ==
    (sac.pc = "idle" /\ sac.last = "ema") =>
        /\ \A k \in 1..NumCritics :
              sac.target[k] =
                  QAdd(QMul(sac.tau, sac.qfs[k]), QMul(QSub(One, sac.tau), sac.prev[k]))
        /\ sac.tau = One => sac.target = sac.qfs
        /\ sac.tau = Zero => sac.target = sac.prev

C7_Witness ==
    /\ sac.pc = "idle"
    /\ sac.last = "ema"
    /\ sac.tau = Q(1, 2)
    /\ sac.qfs[1] = QInt(1)
    /\ sac.qfs[2] = QInt(0)
    /\ sac.prev[1] = QInt(0)
    /\ sac.prev[2] = QInt(1)
    /\ sac.target = <<Q(1, 2), Q(1, 2)>>

ZeroAction == [i \in 1..Len(CHOOSE a \in ActionVals : TRUE) |-> 0]

\* the prior of the initialization value, not sampled (line 376)
InitialPrior ==
    StochasticMode(UniformMix(rssm.unimix, TransitionModel(rssm.par, TanhOfZeros)))

\* C1 as stated: where is_first = 1 the returned recurrent state is the
\* initialization value and the returned stochastic state is the prior
\* computed from it.
C1_AsStated ==
    rssm.pc = "returned" =>
        \A b \in Batch :
            rssm.is_first[b] = 1 =>
                /\ rssm.recurrent_state[b] = TanhOfZeros
                /\ rssm.posterior[b] = InitialPrior

\* C1 amended: where is_first = 1 the recurrent state and the stochastic
\* state that enter the recurrent update are the initialization value and the
\* prior (mode) computed from it, with the action zeroed; the returned
\* recurrent state is the recurrent model's output for them and the returned
\* stochastic state is drawn from the posterior of that new recurrent state
\* and the embedded observation.
C1_ResetFeedsInitialState ==
    /\ rssm.pc = "reset" =>
          \A b \in Batch :
              rssm.is_first[b] = 1 =>
                  rssm.fed[b] = [action |-> ZeroAction,
                                 recurrent_state |-> TanhOfZeros,
                                 posterior |-> InitialPrior]
    /\ rssm.pc = "returned" =>
          \A b \in Batch :
              rssm.is_first[b] = 1 =>
                  /\ rssm.recurrent_state[b] =
                        RecurrentModel(rssm.par, InitialPrior, ZeroAction, TanhOfZeros)
                  /\ rssm.posterior[b] \in
                        StochasticSamples(
                            UniformMix(rssm.unimix,
                                RepresentationModel(rssm.par, rssm.recurrent_state[b],
                                                    rssm.embedded_obs[b])))

C1_Witness ==
    /\ rssm.pc = "returned"
    /\ rssm.is_first = [b \in Batch |-> IF b = 1 THEN 1 ELSE 0]
    /\ rssm.recurrent_state[1] # TanhOfZeros
    /\ rssm.posterior[1] # InitialPrior

\* C2: nothing leaks across an episode boundary.  Where is_first = 1 the
\* values entering the recurrent update are the same whatever posterior,
\* recurrent state and action came in, and two rows that are both reset and
\* see the same embedded observation return the same recurrent state, prior
\* logits and posterior logits; where is_first = 0 the incoming posterior,
\* recurrent state and action are used unmodified.
C2_NoLeakAcrossReset ==
    /\ rssm.pc = "reset" =>
          \A b \in Batch :
              /\ rssm.is_first[b] = 1 =>
                    \A posterior \in InPosteriors, h \in HVals, action \in ActionVals :
                        rssm.fed[b] =
                            [action |-> ResetAction(1, action),
                             recurrent_state |-> ResetRecurrent(1, h),
                             posterior |-> ResetPosterior(rssm.par, rssm.unimix, 1, posterior,
                                                          ResetRecurrent(1, h))]
              /\ rssm.is_first[b] = 0 =>
                    rssm.fed[b] = [action |-> rssm.action[b],
                                   recurrent_state |-> rssm.recurrent_state[b],
                                   posterior |-> rssm.posterior[b]]
    /\ rssm.pc = "recurrent" =>
          \A b, c \in Batch :
              (rssm.is_first[b] = 1 /\ rssm.is_first[c] = 1) =>
                  rssm.recurrent_state[b] = rssm.recurrent_state[c]
    /\ rssm.pc = "returned" =>
          \A b, c \in Batch :
              (/\ rssm.is_first[b] = 1
               /\ rssm.is_first[c] = 1
               /\ rssm.embedded_obs[b] = rssm.embedded_obs[c]) =>
                  /\ rssm.recurrent_state[b] = rssm.recurrent_state[c]
                  /\ rssm.prior_logits[b] = rssm.prior_logits[c]
                  /\ rssm.posterior_logits[b] = rssm.posterior_logits[c]

C2_Witness ==
    /\ rssm.pc = "reset"
    /\ rssm.is_first = [b \in Batch |-> 1]
    /\ rssm.posterior[1] # rssm.posterior[2]
    /\ rssm.recurrent_state[1] # rssm.recurrent_state[2]
    /\ rssm.recurrent_state[1] # TanhOfZeros
    /\ rssm.action[1] # rssm.action[2]
    /\ rssm.posterior[1] # InitialPrior
    /\ rssm.fed[1] = rssm.fed[2]

\* C9: with unimix u > 0 the prior and the posterior logits returned by the
\* RSSM give, for each categorical variable, K probabilities that sum to 1
\* and are each at least u/K.
MixedOK(logits) ==
    \A n \in 1..NumGroups(logits) :
        /\ QSum(Group(logits, n)) = One
        /\ \A k \in 1..Discrete :
              QLe(QDiv(rssm.unimix, QInt(Discrete)), Group(logits, n)[k])

C9_UnimixLowerBound ==
    QLt(Zero, rssm.unimix) =>
        /\ rssm.pc \in {"prior", "returned"} =>
              \A b \in Batch :
                  /\ Len(rssm.prior_logits[b]) = StochasticSize * Discrete
                  /\ MixedOK(rssm.prior_logits[b])
        /\ rssm.pc = "returned" =>
              \A b \in Batch :
                  /\ Len(rssm.posterior_logits[b]) = StochasticSize * Discrete
                  /\ MixedOK(rssm.posterior_logits[b])

C9_Witness ==
    /\ rssm.pc = "returned"
    /\ rssm.unimix = Q(1, 2)
    /\ \E b \in Batch :
          /\ rssm.prior_logits[b][1] # rssm.prior_logits[b][2]
          /\ rssm.posterior_logits[b][1] # rssm.posterior_logits[b][2]

(***************************************************************************)
(* Claims about PlayerDV3.                                                 *)
(***************************************************************************)
PlayerStored(pl, e) ==
    <<pl.actions[e], pl.recurrent_state[e], pl.stochastic_state[e]>>

PlayerStart == <<StartActions, StartRecurrent, StartStochastic(player.par, player.unimix)>>

\* C10: init_states(reset_envs) with a sequence of indices, the empty one
\* included, resets the stored action, recurrent state and stochastic state
\* of exactly the listed environments and leaves those of every other
\* environment unchanged; all are reset only for reset_envs = None.
C10_InitStatesFrame ==
    [][(/\ player.actions # Nil
        /\ player'.last.op = "init_states"
        /\ ~player'.last.raised
        /\ ~player'.last.reset_envs.none) =>
            \A e \in Envs :
                IF e \in Range(player'.last.reset_envs.seq)
                THEN PlayerStored(player', e) = PlayerStart
                ELSE PlayerStored(player', e) = PlayerStored(player, e)]_vars


\* the head's mode for one row: the actor evaluated on (stochastic, recurrent)
ActorOut(pl, e) == ActorModel(pl.apar, pl.stochastic_state[e], pl.recurrent_state[e])

\* z is a draw from the categorical variables the logits describe: one-hot
\* per variable, on a class of positive probability
IsSampleOf(z, logits) ==
    /\ Len(z) = Len(logits)
    /\ \A n \in 1..NumGroups(logits) :
          \E k \in 1..Discrete :
              /\ Group(z, n) = OneHotInt(k, Discrete)
              /\ QLt(Zero, Group(logits, n)[k])

\* C11: get_greedy_action computes the new recurrent state from the stored
\* stochastic state, stored action and stored recurrent state; the new
\* stochastic state is a posterior of that new recurrent state and the
\* embedding of the observation; the actor is evaluated on (new stochastic,
\* new recurrent); and on return the player stores the new recurrent state,
\* the new stochastic state and the concatenation of the returned actions.
C11_GreedyOrder ==
    [][(player'.last.op = "get_greedy_action") =>
        \A e \in Envs :
            LET h == RecurrentModel(player.par, player.stochastic_state[e],
                                    player.actions[e], player.recurrent_state[e])
            IN  /\ player'.recurrent_state[e] = h
                /\ \E embedded_obs \in EmbedVals :
                      IsSampleOf(player'.stochastic_state[e],
                                 UniformMix(player.unimix,
                                     RepresentationModel(player.par, h, embedded_obs)))
                /\ Len(player'.last.returned[e]) = 1
                /\ player'.last.returned[e][1] \in
                      ActorForward(player.distribution, player.unimix,
                                   IsTraining(player'.last.is_training),
                                   ActorModel(player.apar, player'.stochastic_state[e], h))
                /\ player'.actions[e] = Flatten(player'.last.returned[e])]_vars

C11_Witness ==
    /\ player.last.op = "get_greedy_action"
    /\ player.distribution = "discrete"
    /\ player.last.is_training = Passed(FALSE)
    /\ player.recurrent_state[1] # StartRecurrent
    /\ player.recurrent_state[1] # player.recurrent_state[2]
    /\ player.stochastic_state[1] # player.stochastic_state[2]
    /\ player.actions[1] # player.actions[2]

\* C12: get_greedy_action called without an is_training argument returns,
\* for every discrete head, the mode of the head's distribution (so two runs
\* from the same stored state on the same observation return the same
\* action).
C12_GreedyIsDeterministic ==
    [][(/\ player'.last.op = "get_greedy_action"
        /\ ~player'.last.is_training.given
        /\ player.distribution = "discrete") =>
            \A e \in Envs :
                player'.last.returned[e] =
                    <<OneHotInt(ArgMax(ActorUniformMix(player.unimix, ActorOut(player', e))),
                                ActionsDim(player.distribution))>>]_vars

\* C13: get_exploration_action keeps the action valid.  Continuous actions
\* with expl_amount > 0: every component of the returned action is in
\* [-1, 1].  Discrete actions: every returned head is one-hot and is the
\* actor's action unless the uniform draw of the head is below expl_amount,
\* when it is a uniformly drawn category.  With expl_amount = 0 the actor's
\* action is returned unchanged.  What is returned is what is stored.
IsOneHot(v) ==
    /\ \A i \in 1..Len(v) : v[i] \in {0, 1}
    /\ Sum(v) = 1

ActorDraws(pl, e) == ActorForward(pl.distribution, pl.unimix, TRUE, ActorOut(pl, e))

AcceptedNames == {DistAuto, DistDiscrete, DistNormal, DistTanhNormal, DistTruncNormal}

\* C14: constructing an actor with a distribution name outside auto,
\* discrete, normal, tanh_normal, trunc_normal (compared without regard to
\* case), or with discrete for a continuous action space, raises ValueError
\* and yields no actor.
C14_BadDistributionRaises ==
    (/\ actor.pc # "idle"
     /\ actor.pc # "new"
     /\ \/ StrLower(actor.args.distribution) \notin AcceptedNames
        \/ (StrLower(actor.args.distribution) = DistDiscrete /\ actor.args.is_continuous))
    => (actor.pc = "raised" /\ actor.error = "ValueError" /\ actor.obj = Nil)

C14_Witness ==
    /\ actor.pc = "raised"
    /\ StrLower(actor.args.distribution) = DistDiscrete
    /\ actor.args.distribution # DistDiscrete
    /\ actor.args.is_continuous

\* C15: after a successful construction the stored distribution is never
\* auto; auto became discrete for a discrete action space and trunc_normal
\* for a continuous one; and discrete is stored only when the action space
\* is not continuous.
C15_AutoIsResolved ==
    (actor.pc \in {"built", "returned", "failed"})
    => /\ actor.obj.distribution # DistAuto
       /\ actor.obj.distribution \in AcceptedNames
       /\ StrLower(actor.args.distribution) = DistAuto
            => actor.obj.distribution =
                 (IF actor.args.is_continuous THEN DistTruncNormal ELSE DistDiscrete)
       /\ actor.obj.distribution = DistDiscrete => ~actor.obj.is_continuous

C15_Witness ==
    /\ actor.pc = "built"
    /\ actor.args.distribution # DistAuto
    /\ StrLower(actor.args.distribution) = DistAuto
    /\ actor.args.is_continuous
    /\ actor.obj.distribution = DistTruncNormal


(***************************************************************************)
(* Claims about the forward pass of the actors.                            *)
(***************************************************************************)
MinedojoCalled == actor.pc \in {"returned", "failed"} /\ actor.cls = "MinedojoActor"

\* what the second head gave for row b before any mask
SecondHeadOut(b) ==
    HeadOut(MinedojoHeadVals, actor.call.state, 1, b, actor.obj.actions_dim[2])

\* C17: with a mask, the second head is masked after, and according to, the
\* action sampled from the (masked) first head: in a row whose sampled
\* action type is craft (15) its logits are minus infinity exactly where
\* the craft/smelt mask disallows and unchanged elsewhere; in a row whose
\* sampled action type is not craft none of its logits is changed.
C17_CraftMaskFollowsFirstHead ==
    (MinedojoCalled /\ actor.call.mask.given)
    => \A b \in 1..actor.call.rows :
         LET sampled == FunctionalAction(actor.call.actions, b)
             lg == actor.call.dists[2][b]
         IN  /\ QLt(Zero, actor.call.dists[1][b][sampled + 1])
             /\ sampled \in actor.call.mask.action_type[b]
             /\ IF sampled = Craft
                THEN \A k \in 1..Len(lg) :
                       lg[k] = (IF (k - 1) \in actor.call.mask.craft_smelt[b]
                                THEN SecondHeadOut(b)[k] ELSE Zero)
                ELSE lg = SecondHeadOut(b)

C17_Witness ==
    /\ MinedojoCalled
    /\ actor.call.mask.given
    /\ actor.call.rows = 2
    /\ FunctionalAction(actor.call.actions, 1) = Craft
    /\ \E k \in 1..Len(actor.call.dists[2][1]) : actor.call.dists[2][1][k] = Zero
    /\ FunctionalAction(actor.call.actions, 2) # Craft
    /\ \E k \in 1..2 : (k - 1) \notin actor.call.mask.craft_smelt[2]

\* the distributions of the discrete heads a forward pass has produced
HeadsSmoothed ==
    \A j \in 1..Len(actor.call.dists) :
      \A b \in 1..actor.call.rows :
        LET probs == Probs(actor.call.dists[j][b])
        IN  \A k \in 1..Len(probs) :
              QLe(QDiv(actor.obj.unimix, QInt(Len(probs))), probs[k])

\* C18: in discrete mode, with unimix u > 0, every category of every head's
\* distribution has probability at least u / A (A the number of categories
\* of the head), for the plain Actor and for the MinedojoActor.
C18_EveryHeadIsSmoothed ==
    (/\ actor.pc \in {"returned", "failed"}
     /\ ~actor.obj.is_continuous
     /\ QLt(Zero, actor.obj.unimix))
    => HeadsSmoothed


(***************************************************************************)
(* Claims about build_models.                                              *)
(***************************************************************************)
\* C16: when cnn_channels_multiplier <= 0, dense_units <= 0, or cnn_act or
\* dense_act is not the name of an attribute of torch.nn, build_models
\* raises ValueError and has constructed no component at that point.
C16_InvalidArgsRaiseFirst ==
    (/\ bm.pc \notin {"idle", "called"}
     /\ \/ bm.args.cnn_channels_multiplier <= 0
        \/ bm.args.dense_units <= 0
        \/ bm.args.cnn_act \notin NnAttributes
        \/ bm.args.dense_act \notin NnAttributes)
    => (bm.pc = "raised" /\ bm.error = "ValueError" /\ bm.built = <<>>)

C16_Witness ==
    /\ bm.pc = "raised"
    /\ bm.built = <<>>
    /\ bm.args.cnn_channels_multiplier > 0
    /\ bm.args.dense_units = 0
    /\ bm.args.cnn_act \in NnAttributes
    /\ bm.args.dense_act \in NnAttributes


(***************************************************************************)
(* Claims about RSSM.imagination.                                          *)
(***************************************************************************)
\* the recurrent state dynamic computes at line 379 for a row that is not
\* the first of an episode
DynamicRecurrentValue(par, unimix, posterior, action, recurrent_state) ==
    LET h == ResetRecurrent(0, recurrent_state)
    IN  RecurrentModel(par, ResetPosterior(par, unimix, 0, posterior, h),
                       ResetAction(0, action), h)

\* C19: imagination returns the recurrent state dynamic would compute from
\* the same stochastic state, recurrent state and action with is_first = 0;
\* its prior comes from that recurrent state through the transition model
\* and the unimix; it evaluates no representation model and reads no
\* embedded observation; it returns (prior sample, recurrent state).
C19_ImaginationMatchesDynamic ==
    [][(rssm.pc = "carry" /\ rssm'.pc = "imagined")
       => /\ \A b \in Batch :
               /\ \E action \in ActionVals :
                    rssm'.recurrent_state[b] =
                        DynamicRecurrentValue(rssm.par, rssm.unimix, rssm.posterior[b],
                                              action, rssm.recurrent_state[b])
               /\ rssm'.prior_logits[b] =
                    UniformMix(rssm.unimix,
                               TransitionModel(rssm.par, rssm'.recurrent_state[b]))
               /\ IsSampleOf(rssm'.prior[b], rssm'.prior_logits[b])
          /\ rssm'.posterior_logits = Nil
          /\ rssm'.embedded_obs = Nil
          /\ rssm'.returned = <<rssm'.prior, rssm'.recurrent_state>>]_vars

C19_Witness ==
    /\ rssm.pc = "imagined"
    /\ rssm.unimix = Q(1, 2)
    /\ rssm.recurrent_state[1] # rssm.recurrent_state[2]
    /\ rssm.prior[1] # rssm.prior[2]
    /\ rssm.returned = <<rssm.prior, rssm.recurrent_state>>


(***************************************************************************)
(* Claims about the shapes along a rollout.                                *)
(***************************************************************************)
\* C20 as stated: after every step of a rollout (dynamic steps, then
\* imagination steps) in which each step is handed the states the previous
\* step returned, no error was raised and the stochastic state has shape
\* (batch, 16) and the recurrent state shape (batch, 8).
C20_AsStated ==
    (/\ shp.pc \in {"ready", "failed"}
     /\ shp.dynamics + shp.imaginations > 0
     /\ shp.imaginations > 0 => shp.dynamics = MaxDynamic
     /\ shp.direct)
    => /\ shp.error = "none"
       /\ shp.stochastic = <<shp.batch, FlatStochastic>>
       /\ shp.recurrent = <<shp.batch, ShapeCfg.recurrent_state_size>>

\* C20: on tensors with a leading sequence dimension of 1, when every
\* dynamic step is handed the stochastic state as returned (grouped) and
\* every imagination step is handed it reshaped flat to (1, batch, 16),
\* no step raises, and after every step the stochastic state returned has
\* shape (1, batch, 4, 4), 16 values per row, and the recurrent state has
\* shape (1, batch, 8).
C20_RolloutShapes ==
    (/\ shp.pc \in {"ready", "failed"}
     /\ shp.dynamics + shp.imaginations > 0
     /\ shp.lead = <<1>>
     /\ shp.fitted)
    => /\ shp.pc = "ready"
       /\ shp.error = "none"
       /\ shp.stochastic = <<1, shp.batch, ShapeCfg.stochastic_size, ShapeCfg.discrete_size>>
       /\ Numel(shp.stochastic) = shp.batch * FlatStochastic
       /\ shp.recurrent = <<1, shp.batch, ShapeCfg.recurrent_state_size>>

C20_Witness ==
    /\ shp.pc = "ready"
    /\ shp.lead = <<1>>
    /\ shp.batch = 2
    /\ shp.fitted
    /\ shp.dynamics = 5
    /\ shp.imaginations = 3


(***************************************************************************)
(* Claims about the stochastic state.                                      *)
(***************************************************************************)
\* every categorical variable of z has one entry 1 and the others 0
OneHotPerVariable(z) == \A n \in 1..NumGroups(z) : IsOneHot(Group(z, n))

\* C21: the stochastic state is one-hot per categorical variable wherever
\* it is produced: the state the player stores after init_states,
\* get_greedy_action and get_exploration_action; the prior and the posterior
\* of every dynamic step; the prior of every imagination step; and the
\* posterior dynamic feeds to the recurrent model after the is_first reset,
\* for a row that is reset or was handed in one-hot.
C21_StochasticIsOneHot ==
    /\ (rssm.pc = "idle" /\ player # Idle /\ player.stochastic_state # Nil)
         => \A e \in Envs : OneHotPerVariable(player.stochastic_state[e])
    /\ rssm.pc \in {"prior", "returned", "imagined"}
         => \A b \in Batch : OneHotPerVariable(rssm.prior[b])
    /\ rssm.pc = "returned"
         => \A b \in Batch : OneHotPerVariable(rssm.posterior[b])
    /\ rssm.pc = "reset"
         => \A b \in Batch :
              (rssm.is_first[b] = 1 \/ OneHotPerVariable(rssm.posterior[b]))
                 => OneHotPerVariable(rssm.fed[b].posterior)

C21_Witness ==
    /\ rssm.pc = "reset"
    /\ rssm.is_first = <<1, 0>>
    /\ ~OneHotPerVariable(rssm.posterior[1])
    /\ OneHotPerVariable(rssm.posterior[2])
    /\ OneHotPerVariable(rssm.fed[1].posterior)
    /\ rssm.fed[2].posterior = rssm.posterior[2]


(***************************************************************************)
(* Claims about SymlogDistribution and MSEDistribution.                    *)
(***************************************************************************)
\* the distance of element (r, c) of the call that has returned
ElementDistance(r, c) ==
    IF dst.cls = "MSEDistribution"
    THEN (dst.mode[r][c] - dst.value[r][c]) * (dst.mode[r][c] - dst.value[r][c])
    ELSE LET d == dst.mode[r][c] - Symlog(dst.value[r][c])
             e == IF dst.dist = "mse" THEN d * d ELSE Abs(d)
         IN  IF QLt(QInt(e), dst.tol) THEN 0 ELSE e

\* the elements aggregated into entry i of the result: row i when the last
\* dimension is aggregated, every element when the last two are
Aggregated(i) ==
    IF dst.dims = 1 THEN {<<i, c>> : c \in 1..Len(dst.mode[i])}
    ELSE {<<r, c>> : r \in 1..Len(dst.mode), c \in 1..Len(dst.mode[1])}

RECURSIVE DistanceOver(_)
DistanceOver(cells) ==
    IF cells = {} THEN 0
    ELSE LET x == CHOOSE y \in cells : TRUE
         IN  ElementDistance(x[1], x[2]) + DistanceOver(cells \ {x})

\* C22: log_prob raises AssertionError and returns nothing when the value's
\* shape differs from the mode's; when the shapes agree, an unknown distance
\* or aggregation name raises NotImplementedError, and otherwise the result
\* is the negated sum, or the negated mean, of the distances over the last
\* `dims` dimensions.
C22_LogProbContract ==
    (dst.pc \in {"returned", "raised"})
    => IF TensorShape(dst.value) # TensorShape(dst.mode)
       THEN dst.pc = "raised" /\ dst.error = "AssertionError" /\ dst.result = Nil
       ELSE IF \/ dst.agg \notin {"sum", "mean"}
               \/ (dst.cls = "SymlogDistribution" /\ dst.dist \notin {"mse", "abs"})
       THEN dst.pc = "raised" /\ dst.error = "NotImplementedError" /\ dst.result = Nil
       ELSE /\ dst.pc = "returned"
            /\ Len(dst.result) = (IF dst.dims = 1 THEN Len(dst.mode) ELSE 1)
            /\ \A i \in 1..Len(dst.result) :
                 LET total == DistanceOver(Aggregated(i))
                     count == Cardinality(Aggregated(i))
                 IN  IF dst.agg = "sum"
                     THEN QAdd(dst.result[i], QInt(total)) = Zero
                     ELSE QAdd(QMul(dst.result[i], QInt(count)), QInt(total)) = Zero

C22_Witness ==
    /\ dst.pc = "returned"
    /\ dst.cls = "SymlogDistribution"
    /\ dst.dist = "abs"
    /\ dst.agg = "mean"
    /\ dst.dims = 1
    /\ TensorShape(dst.mode) = <<2, 2>>
    /\ dst.result = <<Zero, <<-1, 2>>>>


MissingEntries ==
    {i \in 1..Len(obt.reward_schedule) :
        \A j \in 1..Len(obt.rewards) : obt.rewards[j] # obt.reward_schedule[i].reward}

\* C24: determine_success_from_rewards returns True for an episode whose
\* rewards contain every reward value of the schedule, and whenever at most
\* round(0.1 * schedule length) schedule entries are missing.
C24_SuccessWhenFewMissing ==
    (obt.pc = "returned"
        /\ Cardinality(MissingEntries)
              <= Round(QMul(QInt(Len(obt.reward_schedule)), <<1, 10>>)))
    => obt.result = TRUE

\* what the code does: no episode at all is a success
ObtainNeverSucceeds == obt.pc = "returned" => obt.result = FALSE


(***************************************************************************)
(* Claims about SACPixelAgent.__init__.                                    *)
(***************************************************************************)
\* C25: SACPixelAgent is constructed from Fabric-wrapped and from plain
\* critics alike: the construction succeeds, each target critic is a copy
\* of the wrapped critic's inner module or of the plain critic itself, with
\* parameters equal to the online ones and requires_grad = False.
C25_ConstructsFromAnyCritics ==
    [][sac.pc = "new"
         => /\ sac'.pc = "idle"
            /\ \A i \in 1..NumCritics :
                 /\ sac'.target[i] = sac.critics[i].param
                 /\ sac'.qfs[i] = sac.critics[i].param
                 /\ sac'.requires_grad[i] = FALSE]_vars

\* what the code does: the construction succeeds exactly when every critic
\* is wrapped
SacConstructsWrappedOnly ==
    [][sac.pc = "new"
         => IF \A i \in 1..NumCritics : sac.critics[i].wrapped
            THEN /\ sac'.pc = "idle"
                 /\ \A i \in 1..NumCritics :
                      /\ sac'.target[i] = sac.critics[i].param
                      /\ sac'.qfs[i] = sac.critics[i].param
                      /\ sac'.requires_grad[i] = FALSE
            ELSE sac'.pc = "raised" /\ sac'.error = "AttributeError"]_vars


(***************************************************************************)
(* Claims about the horizon of compute_lambda_values.                      *)
(***************************************************************************)
\* the value that follows timestep t: values[t + 1], the bootstrap after the
\* last timestep
LvFollowing(t) == IF t < LvT THEN lv.values[t + 1] ELSE LvGivenBootstrap

\* C26: for a horizon between 1 and the number T of timesteps the call
\* returns exactly `horizon` values in increasing time order (entry t is the
\* return of timestep t, built on entry t + 1, the last one on the
\* bootstrap), so horizon = T gives one return per timestep; a horizon
\* above T fails and returns nothing.
C26_HorizonValues ==
    /\ (lv.pc = "returned")
         => /\ lv.horizon \in 1..LvT
            /\ Len(lv.result) = lv.horizon
            /\ \A t \in 1..lv.horizon :
                 lv.result[t] =
                    QAdd(lv.rewards[t],
                         QMul(lv.continues[t],
                              QAdd(QMul(QSub(One, lv.lmbda), LvFollowing(t)),
                                   QMul(lv.lmbda,
                                        IF t < lv.horizon THEN lv.result[t + 1]
                                        ELSE LvGivenBootstrap))))
    /\ (lv.pc = "raised") => (lv.horizon > LvT \/ lv.horizon < 1) /\ lv.result = <<>>
    /\ (lv.horizon > LvT /\ lv.pc = "loop") => lv.lv = <<>> /\ lv.i >= Len(lv.inputs)

C26_Witness ==
    /\ lv.pc = "returned"
    /\ LvT = 2
    /\ lv.horizon = 2
    /\ lv.result = <<QInt(1), QInt(0)>>
    /\ lv.rewards = <<QInt(1), QInt(0)>>

\* a horizon above T ends in an error
C26_TooLongFails ==
    /\ lv.pc = "raised"
    /\ lv.horizon = LvT + 1
    /\ lv.result = <<>>


(***************************************************************************)
(* Claims about the action the player stores.                              *)
(***************************************************************************)
\* C27: when get_exploration_action returns, the stored action is the
\* concatenation of the actions it returns (noised or substituted), and the
\* recurrent update of the call that follows consumes that action.
C27_StoredActionIsReturned ==
    [][/\ (player'.last.op = "get_exploration_action")
            => \A e \in Envs : player'.actions[e] = Flatten(player'.last.returned[e])
       /\ (/\ player.last.op = "get_exploration_action"
           /\ player'.last.op \in {"get_greedy_action", "get_exploration_action"})
            => \A e \in Envs :
                 player'.recurrent_state[e] =
                    RecurrentModel(player.par, player.stochastic_state[e],
                                   Flatten(player.last.returned[e]),
                                   player.recurrent_state[e])]_vars

\* the action stored after an exploration call is one the actor cannot have
\* put out for the stored state
C27_Witness ==
    /\ player.last.op = "get_exploration_action"
    /\ \E e \in Envs :
         \A a \in ActorForward(player.distribution, player.unimix, TRUE,
                               ActorModel(player.apar, player.stochastic_state[e],
                                          player.recurrent_state[e])) :
            player.actions[e] # Flatten(<<a>>)


(***************************************************************************)
(* Claims about RSSM._uniform_mix.                                         *)
(***************************************************************************)
\* C28: _uniform_mix raises RuntimeError for logits whose number of
\* dimensions is neither 3 nor 4; for 3-D and 4-D logits it returns a tensor
\* with the same leading dimensions whose last dimension is the flattened
\* N * K; with unimix <= 0 the values are returned unchanged.
C28_UniformMixDims ==
    LET dim == Len(shp.logits.shape)
    IN  (shp.pc \in {"returned", "raised"})
        => IF dim \notin {3, 4}
           THEN shp.pc = "raised" /\ shp.error = "RuntimeError" /\ shp.result = Nil
           ELSE /\ shp.pc = "returned"
                /\ Len(shp.result.shape) = 3
                /\ \A i \in 1..2 : shp.result.shape[i] = shp.logits.shape[i]
                /\ shp.result.shape[3] =
                      (IF dim = 3 THEN shp.logits.shape[3]
                       ELSE shp.logits.shape[3] * shp.logits.shape[4])
                /\ shp.result.shape[3] % Discrete = 0
                /\ Len(shp.result.data) = Len(shp.logits.data)
                /\ QLe(shp.unimix, Zero) => shp.result.data = shp.logits.data

C28_Witness ==
    /\ shp.pc = "returned"
    /\ Len(shp.logits.shape) = 4
    /\ shp.logits.shape[3] = 2
    /\ shp.result.shape = <<1, 2, 2 * Discrete>>
    /\ QLt(shp.unimix, Zero)
    /\ shp.result.data = shp.logits.data
    /\ shp.result.data[1] # shp.result.data[2]

\* logits of two dimensions are refused
C28_TwoDimsRaise ==
    /\ shp.pc = "raised"
    /\ Len(shp.logits.shape) = 2


(***************************************************************************)
(* Claims about the third head of MinedojoActor.forward.                   *)
(***************************************************************************)
\* what the third head gave for row b before any mask
ThirdHeadOut(b) ==
    HeadOut(MinedojoHeadVals, actor.call.state, 2, b, actor.obj.actions_dim[3])

\* the third head of a call that returned is masked according to the action
\* type sampled from the first head
ThirdHeadFollowsFirstHead ==
    /\ Len(actor.call.actions) = 3
    /\ Len(actor.call.dists) = 3
    /\ \A b \in 1..actor.call.rows :
         LET sampled == FunctionalAction(actor.call.actions, b)
             lg == actor.call.dists[3][b]
             allowed == IF sampled \in {16, 17} THEN actor.call.mask.equip_place[b]
                        ELSE actor.call.mask.destroy[b]
         IN  IF sampled \in {16, 17, 18}
             THEN \A k \in 1..Len(lg) :
                    lg[k] = (IF (k - 1) \in allowed THEN ThirdHeadOut(b)[k] ELSE Zero)
             ELSE lg = ThirdHeadOut(b)

\* C29: with a mask, forward completes and returns one action and one
\* distribution per head, the third head masked according to the action type
\* sampled from the first head: for equip and place (16, 17) its logits are
\* minus infinity exactly where the equip/place mask disallows, for destroy
\* (18) where the destroy mask disallows, and otherwise they are unchanged.
C29_ThirdHeadMaskedAndReturned ==
    (MinedojoCalled /\ actor.call.mask.given)
    => actor.pc = "returned" /\ ThirdHeadFollowsFirstHead

\* what the code does: the call completes, as stated, for a single row and
\* raises at line 784 for more rows
MinedojoMaskedSingleRowOnly ==
    (MinedojoCalled /\ actor.call.mask.given)
    => IF actor.call.rows = 1
       THEN actor.pc = "returned" /\ ThirdHeadFollowsFirstHead
       ELSE actor.pc = "failed" /\ actor.error = "RuntimeError"


(***************************************************************************)
(* Claims about test().                                                    *)
(***************************************************************************)
TraceCount(event) == Cardinality({i \in 1..Len(tst.trace) : tst.trace[i] = event})

\* the calls so far: init_states with a single environment comes before the
\* first get_greedy_action, get_greedy_action and env.step alternate, every
\* step but the last one came back neither done nor truncated (and not under
\* dry_run), and env.close is the last call, made once
TestProtocol ==
    /\ \A i \in 1..Len(tst.trace) :
         /\ tst.trace[i] = "init_states" => i = 2 /\ tst.num_envs = 1
         /\ tst.trace[i] = "get_greedy_action"
               => i > 2 /\ tst.trace[i - 1] \in {"init_states", "env.step"}
                        /\ tst.trace[2] = "init_states"
         /\ tst.trace[i] = "env.step" => i > 1 /\ tst.trace[i - 1] = "get_greedy_action"
         /\ tst.trace[i] = "env.close"
               => i = Len(tst.trace) /\ i > 1 /\ tst.trace[i - 1] = "env.step"
    /\ TraceCount("get_greedy_action") \in {Len(tst.steps), Len(tst.steps) + 1}
    /\ TraceCount("env.step") = Len(tst.steps)
    /\ \A k \in 1..(Len(tst.steps) - 1) :
         ~(tst.steps[k].done \/ tst.steps[k].truncated \/ tst.dry_run)
    /\ tst.dry_run => Len(tst.steps) <= 1
    /\ TraceCount("env.close") = (IF tst.pc = "closed" THEN 1 ELSE 0)
    /\ tst.pc = "closed"
         => /\ Len(tst.steps) >= 1
            /\ LET last == tst.steps[Len(tst.steps)]
               IN  last.done \/ last.truncated \/ tst.dry_run
            /\ tst.dry_run => Len(tst.steps) = 1

\* C30: test() sets the player to a single environment and calls
\* init_states before the first get_greedy_action, then alternates
\* get_greedy_action and env.step until the first step that is done,
\* truncated or under dry_run (with dry_run exactly one step), and calls
\* env.close exactly once, after the loop.
C30_TestEpisode == []TestProtocol /\ <>(tst.pc = "closed")

C30_Witness ==
    /\ tst.pc = "closed"
    /\ ~tst.dry_run
    /\ Len(tst.steps) = 2
    /\ tst.steps[2].truncated /\ ~tst.steps[2].done
    /\ tst.trace = <<"env.reset", "init_states", "get_greedy_action", "env.step",
                     "get_greedy_action", "env.step", "env.close">>

\* a dry run: one step that is neither done nor truncated, then the close
C30_DryRunWitness ==
    /\ tst.pc = "closed"
    /\ tst.dry_run
    /\ tst.steps = <<[done |-> FALSE, truncated |-> FALSE]>>

====
